---- MODULE Spec2Model ----
(***************************************************************************)
(* Model of issue-from-pytest-log-action: the failure-report compressor    *)
(* of parse_logs.py and the bisection/version-diff engine of               *)
(* track_packages.py.                                                      *)
(*                                                                         *)
(* Python str values are TLA+ strings (TLC evaluates Len and \o on them);  *)
(* Python lists are sequences; Python's None is the value None below.      *)
(***************************************************************************)
EXTENDS Integers, Sequences, FiniteSets, TLC

VARIABLES
    reports,      \* compressor: the list of PreformattedReport passed in
    max_chars,    \* compressor: the character budget passed in
    py_version,   \* compressor: the formatter keyword argument
    op,           \* which function has been called ("init": none yet)
    result,       \* what the called function returned
    preformatted, \* parse_logs.main: the preformatted failures of the log
    bisect_file,  \* parse_logs.main: bisect-comparison.txt, as lines, or None
    main_message, \* parse_logs.main: its message, before the bisection text
    output_file,  \* parse_logs.main: pytest-logs.txt as written, or None
    current_packages,  \* get_package_changes: the current snapshot
    previous_packages, \* get_package_changes: the previous snapshot
    changes,           \* get_package_changes: the list it returned
    branch,            \* the bisection branch: its files, or missing
    current_data,      \* the snapshot of the current run
    test_last_success, \* find_last_successful_run_for_tests: its result
    test_sections,     \* format_bisect_comparison: the sections before joining
    comparison,        \* format_bisect_comparison: its result
    argument,          \* a function called on its own: what it is called with
    returned           \* a function called on its own: what it returned

compressorVars == <<reports, max_chars, result>>
mainVars == <<preformatted, bisect_file, main_message, output_file>>
diffVars == <<current_packages, previous_packages, changes>>
bisectVars == <<branch, current_data, test_last_success, test_sections, comparison>>
callVars == <<argument, returned>>
vars == <<py_version, op, compressorVars, mainVars, diffVars, bisectVars, callVars>>

\* The variables of the parts a specification leaves alone.
CompressorIdle == reports = <<>> /\ max_chars = 0 /\ result = "<None>"
MainIdle ==
    /\ preformatted = <<>>
    /\ bisect_file = "<None>"
    /\ main_message = "<None>"
    /\ output_file = "<None>"
DiffIdle == current_packages = <<>> /\ previous_packages = <<>> /\ changes = <<>>
BisectIdle ==
    /\ branch = <<>>
    /\ current_data = <<>>
    /\ test_last_success = <<>>
    /\ test_sections = <<>>
    /\ comparison = "<None>"
CallIdle == argument = <<>> /\ returned = <<>>

(***************************************************************************)
(* Values                                                                  *)
(***************************************************************************)

\* Python's None.  No string of the model's domains equals it.
None == "<None>"

\* str(x) as an f-string applies it to a str or to None.
PyStr(x) == IF x = None THEN "None" ELSE x

RECURSIVE Join(_, _)
\* sep.join(lines)
Join(lines, sep) ==
    IF lines = <<>> THEN ""
    ELSE IF Len(lines) = 1 THEN lines[1]
    ELSE lines[1] \o sep \o Join(Tail(lines), sep)

RECURSIVE SeqsUpTo(_, _)
\* every sequence over S of length at most n
SeqsUpTo(S, n) ==
    IF n = 0 THEN {<<>>}
    ELSE LET shorter == SeqsUpTo(S, n - 1)
         IN  shorter \cup {Append(s, x) : s \in {t \in shorter : Len(t) = n - 1}, x \in S}

PreformattedReport(filepath, name, variant, message) ==
    [filepath |-> filepath, name |-> name, variant |-> variant, message |-> message]

CollectionError(name, repr_) == [name |-> name, repr_ |-> repr_]

IsCollectionError(x) == DOMAIN x = {"name", "repr_"}

\* What main ends with when format_summary reads report.variant of a
\* CollectionError, which has no such attribute.
AttributeError == "<AttributeError>"

RECURSIVE Repeat(_, _)
\* s * n
Repeat(s, n) ==
    IF n = 0 THEN ""
    ELSE IF n % 2 = 1 THEN s \o Repeat(s, n - 1)
    ELSE LET half == Repeat(s, n \div 2) IN half \o half

(***************************************************************************)
(* Bounds and input domains of the compressor                              *)
(***************************************************************************)

MaxReports == 3
MaxBudgetSteps == 23
BudgetStep == 3
MinBudget == 73

Variants == {"a", "b"}
Messages == {"m", "mmmmmmmmmmmm"}
PyVersions == {"3.12"}

\* The reports preformat_report builds: a collection-level report has neither
\* name nor variant, a test-level one has a name and possibly a variant.  Every
\* shape of a test-level report of file f, one collection-level report of f
\* and one report of a second file g.
Reports ==
    {PreformattedReport("f", None, None, "m")}
    \cup {PreformattedReport("f", "t", v, m) : v \in Variants \cup {None}, m \in Messages}
    \cup {PreformattedReport("g", "t", "a", "m")}

Budgets == {0} \cup {MinBudget + BudgetStep * k : k \in 0..MaxBudgetSteps}

(***************************************************************************)
(* parse_logs.py: rendering                                                *)
(***************************************************************************)

format_summary(report) ==
    IF report.variant # None
    THEN report.filepath \o "::" \o report.name \o "[" \o report.variant \o "]: "
            \o report.message
    ELSE IF report.name # None
    THEN report.filepath \o "::" \o report.name \o ": " \o report.message
    ELSE report.filepath \o ": " \o report.message

\* The Markdown code fence, three backquotes (U+0060).  A TLA+ string cannot
\* hold a backquote, so three apostrophes stand for it: the length is the same.
Fence == "'''"

format_report(summaries, py) ==
    "<details><summary>Python " \o py \o " Test Summary</summary>\n\n" \o Fence \o "\n"
        \o Join(summaries, "\n") \o "\n" \o Fence \o "\n\n</details>\n"

\* [format_summary(report) for report in reports]
format_summaries(rs) == [i \in 1..Len(rs) |-> format_summary(rs[i])]

summarize(rs, py) ==
    format_report(<<ToString(Len(rs)) \o " failing tests">>, py)

\* The key merge_variants buckets by.
report_key(r) == <<r.filepath, r.name, r.message>>

RECURSIVE bucket_keys_consecutive(_, _)
\* bucket_keys grouping only neighbours, as itertools.groupby does: a key
\* comes again when its reports are not adjacent.
bucket_keys_consecutive(rs, seen) ==
    IF rs = <<>> THEN seen
    ELSE LET k == report_key(Head(rs))
         IN  bucket_keys_consecutive(Tail(rs),
                         IF seen # <<>> /\ seen[Len(seen)] = k
                         THEN seen ELSE Append(seen, k))

RECURSIVE bucket_keys(_, _)
\* Iterating a more_itertools.bucket: the keys, each once, in order of first
\* occurrence in the input (the insertion order of its cache).
bucket_keys(rs, seen) ==
    IF rs = <<>> THEN seen
    ELSE LET k == report_key(Head(rs))
         IN  bucket_keys(Tail(rs),
                         IF \E i \in 1..Len(seen) : seen[i] = k
                         THEN seen ELSE Append(seen, k))

\* list(bucket[name]): the items of that key, in input order.
bucket_group(rs, k) ==
    LET HasKey(r) == report_key(r) = k
    IN  SelectSeq(rs, HasKey)

format_variant_group(name, group) ==
    LET filepath == name[1]
        test_name == name[2]
        message == name[3]
        n_variants == Len(group)
    IN  IF n_variants # 1
        THEN filepath \o "::" \o PyStr(test_name) \o "[" \o ToString(n_variants)
                \o " failing variants]: " \o message
        ELSE IF group[1].variant # None
        THEN filepath \o "::" \o PyStr(test_name) \o "[" \o group[1].variant \o "]: "
                \o message
        ELSE filepath \o "::" \o PyStr(test_name) \o ": " \o message

merge_variants(rs, budget, py) ==
    LET keys == bucket_keys(rs, <<>>)
        summaries == [i \in 1..Len(keys) |->
                        format_variant_group(keys[i], bucket_group(rs, keys[i]))]
    IN  format_report(summaries, py)

\* fractions = [0.95, 0.75, 0.5, 0.25, 0.1, 0.01], in percent.
fractions == <<95, 75, 50, 25, 10, 1>>

\* n_selected rounding to the nearest integer instead of truncating.
n_selected_rounded(n_reports, fraction) == (n_reports * fraction + 50) \div 100

\* int(n_reports * fraction): the float product truncated, which for these six
\* fractions equals the exact floor for every n_reports below 200000.
n_selected(n_reports, fraction) == (n_reports * fraction) \div 100

\* One turn of truncate's loop: the rendering for one fraction.
truncate_candidate(rs, fraction, py) ==
    LET n_reports == Len(rs)
        n_sel == n_selected(n_reports, fraction)
        selected_reports == SubSeq(rs, 1, n_sel)
        report_messages == format_summaries(selected_reports)
        summary == Append(report_messages,
                          "+ " \o ToString(n_reports - n_sel) \o " failing tests")
    IN  format_report(summary, py)

RECURSIVE truncate_from_skipping_empty(_, _, _, _)
\* truncate_from passing over the fractions that select no report.
truncate_from_skipping_empty(i, rs, budget, py) ==
    IF i > Len(fractions) THEN None
    ELSE LET formatted == truncate_candidate(rs, fractions[i], py)
         IN  IF n_selected(Len(rs), fractions[i]) > 0 /\ Len(formatted) <= budget
             THEN formatted
             ELSE truncate_from_skipping_empty(i + 1, rs, budget, py)

RECURSIVE truncate_from(_, _, _, _)
truncate_from(i, rs, budget, py) ==
    IF i > Len(fractions) THEN None
    ELSE LET formatted == truncate_candidate(rs, fractions[i], py)
         IN  IF Len(formatted) <= budget THEN formatted
             ELSE truncate_from(i + 1, rs, budget, py)

truncate(rs, budget, py) == truncate_from(1, rs, budget, py)

\* compressed_report with truncate tried before merge_variants.
compressed_report_truncate_first(rs, budget, py) ==
    LET formatted == format_report(format_summaries(rs), py)
        merged == merge_variants(rs, budget, py)
        truncated == truncate(rs, budget, py)
    IN  IF Len(formatted) <= budget THEN formatted
        ELSE IF truncated # None /\ Len(truncated) <= budget THEN truncated
        ELSE IF merged # None /\ Len(merged) <= budget THEN merged
        ELSE summarize(rs, py)

\* compressed_report returning what the last strategy gave instead of the
\* summary.
compressed_report_last_strategy(rs, budget, py) ==
    LET formatted == format_report(format_summaries(rs), py)
        merged == merge_variants(rs, budget, py)
        truncated == truncate(rs, budget, py)
    IN  IF Len(formatted) <= budget THEN formatted
        ELSE IF merged # None /\ Len(merged) <= budget THEN merged
        ELSE truncated

compressed_report(rs, budget, py) ==
    LET formatted == format_report(format_summaries(rs), py)
        merged == merge_variants(rs, budget, py)
        truncated == truncate(rs, budget, py)
    IN  IF Len(formatted) <= budget THEN formatted
        ELSE IF merged # None /\ Len(merged) <= budget THEN merged
        ELSE IF truncated # None /\ Len(truncated) <= budget THEN truncated
        ELSE summarize(rs, py)

(***************************************************************************)
(* The compressor's functions, each called on inputs of the domains        *)
(***************************************************************************)

Init ==
    /\ reports \in SeqsUpTo(Reports, MaxReports)
    /\ max_chars \in Budgets
    /\ py_version \in PyVersions
    /\ op = "init"
    /\ result = None
    /\ MainIdle
    /\ DiffIdle
    /\ BisectIdle
    /\ CallIdle

CallCompressedReport ==
    /\ op = "init"
    /\ op' = "compressed_report"
    /\ result' = compressed_report(reports, max_chars, py_version)
    /\ UNCHANGED <<reports, max_chars, py_version, mainVars, diffVars, bisectVars, callVars>>

CallMergeVariants ==
    /\ op = "init"
    /\ op' = "merge_variants"
    /\ result' = merge_variants(reports, max_chars, py_version)
    /\ UNCHANGED <<reports, max_chars, py_version, mainVars, diffVars, bisectVars, callVars>>

CallTruncate ==
    /\ op = "init"
    /\ op' = "truncate"
    /\ result' = truncate(reports, max_chars, py_version)
    /\ UNCHANGED <<reports, max_chars, py_version, mainVars, diffVars, bisectVars, callVars>>

Next == CallCompressedReport \/ CallMergeVariants \/ CallTruncate

Spec == Init /\ [][Next]_vars

(***************************************************************************)
(* parse_logs.py: main                                                     *)
(***************************************************************************)

\* test_collection_stage
test_collection_stage == "test collection session"

\* max_chars=65535, the budget main passes to compressed_report.
MainMaxChars == 65535

MaxFailures == 2

\* The texts of a whole-session collection error: a short one and one longer
\* than the budget of main.
CollectionErrors ==
    {CollectionError(test_collection_stage, "ImportError: No module named 'missing'"),
     CollectionError(test_collection_stage, Repeat("E", MainMaxChars + 1))}

\* bisect-comparison.txt as its lines: absent, empty, or one section that ends
\* with the two newlines format_bisect_comparison appends.
BisectFiles ==
    {None,
     <<"">>,
     <<"## f::t", "### Analysis", "- No recent successful run found for this test", "", "">>}

\* format_collection_error with the traceback cut to the budget.
format_collection_error_cut(error, py) ==
    "<details><summary>Python " \o py \o " Test Summary</summary>\n\n"
        \o error.name \o " failed:\n" \o Fence \o "\n"
        \o (IF Len(error.repr_) <= MainMaxChars THEN error.repr_ ELSE "...")
        \o "\n" \o Fence \o "\n\n</details>\n"

format_collection_error(error, py) ==
    "<details><summary>Python " \o py \o " Test Summary</summary>\n\n"
        \o error.name \o " failed:\n" \o Fence \o "\n"
        \o error.repr_ \o "\n" \o Fence \o "\n\n</details>\n"

RECURSIVE strip_lines(_)
\* str.strip() of a text given as lines none of which starts or ends with
\* white space: the empty lines at both ends go.
strip_lines(lines) ==
    IF lines = <<>> THEN <<>>
    ELSE IF Head(lines) = "" THEN strip_lines(Tail(lines))
    ELSE IF lines[Len(lines)] = "" THEN strip_lines(SubSeq(lines, 1, Len(lines) - 1))
    ELSE lines

include_bisection_info(msg, file) ==
    IF file # None
    THEN LET bisect_content == Join(strip_lines(file), "\n")
         IN  IF bisect_content # "" THEN bisect_content \o "\n" \o msg ELSE msg
    ELSE msg

\* The message main builds from the preformatted failures.  compressed_report
\* starts with format_summary of every report, and format_summary reads
\* report.variant, which a CollectionError does not have.
main_report(pre, py) ==
    IF Len(pre) = 1 /\ IsCollectionError(pre[1])
    THEN format_collection_error(pre[1], py)
    ELSE IF \E i \in 1..Len(pre) : IsCollectionError(pre[i])
    THEN AttributeError
    ELSE compressed_report(pre, MainMaxChars, py)

\* A report whose line nearly fills the budget of main: its full listing is
\* shorter than the budget by fewer characters than the bisection text has.
LongReports ==
    {PreformattedReport("f", "t", None, Repeat("m", MainMaxChars - 100))}

InitMain ==
    /\ preformatted \in SeqsUpTo(Reports \cup CollectionErrors \cup LongReports,
                                 MaxFailures)
    /\ bisect_file \in BisectFiles
    /\ py_version \in PyVersions
    /\ op = "init"
    /\ main_message = None
    /\ output_file = None
    /\ CompressorIdle
    /\ DiffIdle
    /\ BisectIdle
    /\ CallIdle

\* main, from the failed records on; an exception leaves pytest-logs.txt
\* unwritten.
Main ==
    /\ op = "init"
    /\ op' = "main"
    /\ main_message' = main_report(preformatted, py_version)
    /\ output_file' = IF main_message' = AttributeError THEN None
                      ELSE include_bisection_info(main_message', bisect_file)
    /\ UNCHANGED <<preformatted, bisect_file, py_version, compressorVars, diffVars, bisectVars, callVars>>

NextMain == Main

SpecMain == InitMain /\ [][NextMain]_vars

(***************************************************************************)
(* track_packages.py: package snapshots and their diff                     *)
(*                                                                         *)
(* A snapshot is a dict: a sequence of <<package name, package info>>      *)
(* pairs with distinct names, in the order of insertion.  A package info   *)
(* is JSON null, a str (the legacy form) or a dict with a version and      *)
(* possibly a git_info (the rich form).  A git revision is a sequence of   *)
(* characters, so that its first eight can be taken.                       *)
(***************************************************************************)

\* None where the other values are sequences of characters.
NoneChars == <<None>>

NullInfo == [kind |-> "null"]
StrInfo(version) == [kind |-> "str", version |-> version]
DictInfo(version, git_info) == [kind |-> "dict", version |-> version, git_info |-> git_info]

\* A rich record without the key "git_info".
NoGitInfoKey == [kind |-> "missing"]
\* A rich record whose git_info is JSON null.
NullGitInfo == [kind |-> "null"]
\* A git_info dict; git_revision is NoneChars when the dict has no such key.
GitInfo(git_revision) == [kind |-> "dict", git_revision |-> git_revision]

\* PACKAGE_METADATA: package name -> GitHub repository (every entry is of
\* type "releases").
PACKAGE_METADATA ==
    ("numpy" :> "numpy/numpy") @@ ("pandas" :> "pandas-dev/pandas")
    @@ ("matplotlib" :> "matplotlib/matplotlib") @@ ("scipy" :> "scipy/scipy")
    @@ ("scikit-learn" :> "scikit-learn/scikit-learn") @@ ("requests" :> "psf/requests")
    @@ ("django" :> "django/django") @@ ("flask" :> "pallets/flask")
    @@ ("pytest" :> "pytest-dev/pytest") @@ ("hypothesis" :> "HypothesisWorks/hypothesis")
    @@ ("xarray" :> "pydata/xarray") @@ ("dask" :> "dask/dask")
    @@ ("jupyterlab" :> "jupyterlab/jupyterlab") @@ ("notebook" :> "jupyter/notebook")
    @@ ("ipython" :> "ipython/ipython") @@ ("tensorflow" :> "tensorflow/tensorflow")
    @@ ("torch" :> "pytorch/pytorch") @@ ("fastapi" :> "tiangolo/fastapi")
    @@ ("pydantic" :> "pydantic/pydantic") @@ ("sqlalchemy" :> "sqlalchemy/sqlalchemy")
    @@ ("black" :> "psf/black") @@ ("mypy" :> "python/mypy") @@ ("ruff" :> "astral-sh/ruff")

\* generate_package_diff_link comparing from the new version to the old one.
generate_package_diff_link_swapped(package_name, old_version, new_version) ==
    IF package_name \notin DOMAIN PACKAGE_METADATA THEN None
    ELSE "https://github.com/" \o PACKAGE_METADATA[package_name] \o "/compare/"
            \o "v" \o new_version \o "...v" \o old_version

generate_package_diff_link(package_name, old_version, new_version) ==
    IF package_name \notin DOMAIN PACKAGE_METADATA THEN None
    ELSE "https://github.com/" \o PACKAGE_METADATA[package_name] \o "/compare/"
            \o "v" \o old_version \o "...v" \o new_version

\* The package names of the model, in ascending lexicographic order: what
\* sorted() goes by.
PackageOrder == <<"mypkg", "numpy">>

\* sorted(names)
sorted_packages(names) ==
    LET Among(p) == p \in names
    IN  SelectSeq(PackageOrder, Among)

\* set(packages.keys())
dict_keys(packages) == {packages[i][1] : i \in 1..Len(packages)}

\* packages.get(package)
package_get(packages, package) ==
    IF package \in dict_keys(packages)
    THEN packages[CHOOSE i \in 1..Len(packages) : packages[i][1] = package][2]
    ELSE NullInfo

extract_version_string(package_info) ==
    IF package_info.kind = "null" THEN None ELSE package_info.version

\* An AttributeError raised where the other values are sequences of
\* characters, and where they are lists of changes.
Raised == <<AttributeError>>

\* git_info.get("git_revision") raises on a git_info that is None.
extract_git_revision(package_info) ==
    IF package_info.kind = "dict" /\ package_info.git_info.kind # "missing"
    THEN IF package_info.git_info.kind = "null" THEN Raised
         ELSE package_info.git_info.git_revision
    ELSE NoneChars

\* format_version_with_git showing the whole revision.
format_version_with_git_full_hash(package_info) ==
    LET version == extract_version_string(package_info)
        git_revision == extract_git_revision(package_info)
    IN  IF version = None THEN "(missing)"
        ELSE IF git_revision = Raised THEN AttributeError
        ELSE IF git_revision # NoneChars /\ git_revision # <<>>
        THEN version \o " (" \o Join(git_revision, "") \o ")"
        ELSE version

format_version_with_git(package_info) ==
    LET version == extract_version_string(package_info)
        git_revision == extract_git_revision(package_info)
    IN  IF version = None THEN "(missing)"
        ELSE IF git_revision = Raised THEN AttributeError
        ELSE IF git_revision # NoneChars /\ git_revision # <<>>
        THEN LET short_hash ==
                    SubSeq(git_revision, 1,
                           IF Len(git_revision) < 8 THEN Len(git_revision) ELSE 8)
             IN  version \o " (" \o Join(short_hash, "") \o ")"
        ELSE version

\* package_changes with "removed" and "new" the wrong way round.
package_changes_swapped(package, current, previous) ==
    LET current_info == package_get(current, package)
        previous_info == package_get(previous, package)
        current_version == extract_version_string(current_info)
        previous_version == extract_version_string(previous_info)
    IN  IF current_version = None /\ previous_version = None THEN <<>>
        ELSE IF previous_version = None
        THEN <<"- " \o package \o ": " \o format_version_with_git(current_info)
                \o " → (removed)">>
        ELSE IF current_version = None
        THEN <<"- " \o package \o ": (new) → " \o format_version_with_git(previous_info)>>
        ELSE <<>>

\* One turn of the loop of get_package_changes: what it appends to changes
\* for one package, or Raised.
package_changes(package, current, previous) ==
    LET current_info == package_get(current, package)
        previous_info == package_get(previous, package)
        current_version == extract_version_string(current_info)
        previous_version == extract_version_string(previous_info)
        prev_display == format_version_with_git(previous_info)
        curr_display == format_version_with_git(current_info)
    IN  IF current_version = None /\ previous_version = None THEN <<>>
        ELSE IF current_version = None
        THEN IF prev_display = AttributeError THEN Raised
             ELSE <<"- " \o package \o ": " \o prev_display \o " → (removed)">>
        ELSE IF previous_version = None
        THEN IF curr_display = AttributeError THEN Raised
             ELSE <<"- " \o package \o ": (new) → " \o curr_display>>
        ELSE IF current_version = previous_version
                /\ Raised \in {extract_git_revision(current_info),
                               extract_git_revision(previous_info)}
        THEN Raised
        ELSE IF current_version # previous_version
                \/ extract_git_revision(current_info) # extract_git_revision(previous_info)
        THEN IF AttributeError \in {prev_display, curr_display} THEN Raised
             ELSE IF current_version # previous_version
             THEN LET diff_link == generate_package_diff_link(
                                        package, previous_version, current_version)
                  IN  IF diff_link # None
                      THEN <<"- [" \o package \o ": " \o prev_display \o " → "
                                \o curr_display \o "](" \o diff_link \o ")">>
                      ELSE <<"- " \o package \o ": " \o prev_display \o " → "
                                \o curr_display>>
             ELSE <<"- " \o package \o ": " \o prev_display \o " → " \o curr_display
                        \o " (git revision changed)">>
        ELSE <<>>

RECURSIVE changes_of(_, _, _)
\* The loop of get_package_changes over the sorted packages: the changes, or
\* Raised as soon as one turn raises.
changes_of(packages, current, previous) ==
    IF packages = <<>> THEN <<>>
    ELSE LET first == package_changes(Head(packages), current, previous)
             rest == changes_of(Tail(packages), current, previous)
         IN  IF first = Raised THEN Raised
             ELSE IF rest = Raised THEN Raised
             ELSE first \o rest

\* get_package_changes going through the packages in the order of insertion:
\* those of current, then the others of previous.
get_package_changes_insertion_order(current, previous) ==
    LET OnlyPrevious(item) == item[1] \notin dict_keys(current)
        items == current \o SelectSeq(previous, OnlyPrevious)
    IN  changes_of([i \in 1..Len(items) |-> items[i][1]], current, previous)

get_package_changes(current, previous) ==
    changes_of(sorted_packages(dict_keys(current) \cup dict_keys(previous)),
               current, previous)

\* The git revisions of the model: one of seven characters, one of more than
\* eight.
Revisions ==
    {<<"a", "b", "c", "1", "2", "3", "d">>,
     <<"0", "1", "2", "3", "4", "5", "6", "7", "8", "9">>}

Versions == {"1.0", "2.0"}

\* The package infos capture_versions.py and the legacy detection write:
\* null for a package that was not found, a version string, or a version
\* with a git_info dict that holds a revision or is empty; and a rich record
\* without git_info, and one without a version.
PackageInfos ==
    {NullInfo, DictInfo(None, NoGitInfoKey)}
    \cup {StrInfo(v) : v \in Versions}
    \cup {DictInfo("1.0", NoGitInfoKey), DictInfo("1.0", GitInfo(NoneChars))}
    \cup {DictInfo("1.0", GitInfo(r)) : r \in Revisions}
    \cup {DictInfo("2.0", GitInfo(<<"0", "1", "2", "3", "4", "5", "6", "7", "8", "9">>))}

PackageNames == {PackageOrder[i] : i \in 1..Len(PackageOrder)}

\* The dicts over a set of package infos: the names of the items differ.
DictsOver(infos) ==
    {d \in SeqsUpTo(PackageNames \X infos, Len(PackageOrder)) :
        \A i, j \in 1..Len(d) : d[i][1] = d[j][1] => i = j}

Snapshots == DictsOver(PackageInfos)

InitDiff ==
    /\ current_packages \in Snapshots
    /\ previous_packages \in Snapshots
    /\ changes = <<>>
    /\ op = "init"
    /\ py_version \in PyVersions
    /\ CompressorIdle
    /\ MainIdle
    /\ BisectIdle
    /\ CallIdle

CallGetPackageChanges ==
    /\ op = "init"
    /\ op' = "get_package_changes"
    /\ changes' = get_package_changes(current_packages, previous_packages)
    /\ UNCHANGED <<current_packages, previous_packages, py_version,
                   compressorVars, mainVars, bisectVars, callVars>>

NextDiff == CallGetPackageChanges

SpecDiff == InitDiff /\ [][NextDiff]_vars

\* The package infos of the tests of the repository: rich records whose
\* git_info is null, next to null, a version string and a rich record with a
\* revision.
NullGitInfoInfos ==
    {NullInfo, StrInfo("2.0"), DictInfo("1.0", NullGitInfo), DictInfo("2.0", NullGitInfo),
     DictInfo("1.0", GitInfo(<<"a", "b", "c", "1", "2", "3", "d">>))}

InitNullGitInfo ==
    /\ current_packages \in DictsOver(NullGitInfoInfos)
    /\ previous_packages \in DictsOver(NullGitInfoInfos)
    /\ changes = <<>>
    /\ op = "init"
    /\ py_version \in PyVersions
    /\ CompressorIdle
    /\ MainIdle
    /\ BisectIdle
    /\ CallIdle

\* get_package_changes on snapshots that may hold a git_info of null.
SpecNullGitInfo == InitNullGitInfo /\ [][NextDiff]_vars

(***************************************************************************)
(* track_packages.py: the run history on the bisection branch              *)
(*                                                                         *)
(* The branch is missing (git ls-tree fails) or holds files; a file is a   *)
(* stored run, a .json file that cannot be read as JSON, or a file of      *)
(* another kind.  A timestamp is a sequence of characters, compared the    *)
(* way Python compares str.                                                *)
(***************************************************************************)

\* The code point of the characters timestamps are made of.
ord(c) == CASE c = "." -> 46 [] c = "0" -> 48 [] c = "1" -> 49 [] c = "Z" -> 90

RECURSIVE str_lt(_, _)
\* a < b on str.
str_lt(a, b) ==
    IF b = <<>> THEN FALSE
    ELSE IF a = <<>> THEN TRUE
    ELSE IF Head(a) # Head(b) THEN ord(Head(a)) < ord(Head(b))
    ELSE str_lt(Tail(a), Tail(b))

Range(seq) == {seq[i] : i \in 1..Len(seq)}

\* The commit information get_git_info returns; commit_message is kept as
\* its first 60 characters and the rest.
Commit(commit_hash, commit_hash_short, head, rest) ==
    [commit_hash |-> commit_hash, commit_hash_short |-> commit_hash_short,
     commit_message |-> [head |-> head, rest |-> rest]]

\* What get_git_info returns when git fails.
UnknownCommit == Commit("unknown", "unknown", "unknown", "")

\* Run with a test_status that is always "failed".
Run_always_failed(workflow_run_id, timestamp, packages, failed_tests, git) ==
    [kind |-> "run", workflow_run_id |-> workflow_run_id, timestamp |-> timestamp,
     packages |-> packages, failed_tests |-> failed_tests,
     test_status |-> "failed",
     git |-> git]

\* The dict create_bisect_data returns.
Run(workflow_run_id, timestamp, packages, failed_tests, git) ==
    [kind |-> "run", workflow_run_id |-> workflow_run_id, timestamp |-> timestamp,
     packages |-> packages, failed_tests |-> failed_tests,
     test_status |-> IF failed_tests # <<>> THEN "failed" ELSE "passed",
     git |-> git]

\* A .json file that git show or json.loads fails on.
CorruptFile == [kind |-> "corrupt"]
\* A file whose name does not end with ".json".
OtherFile == [kind |-> "other"]
\* git ls-tree fails: there is no such branch.
MissingBranch == [kind |-> "missing"]
\* The files of the branch, in the order git ls-tree lists them.
Branch(files) == [kind |-> "branch", files |-> files]
\* None where the other values are runs.
NoRun == [kind |-> "None"]

\* The runs json.loads gives, in the order of the files.
all_runs(files) ==
    LET Loaded(f) == f.kind = "run"
    IN  SelectSeq(files, Loaded)

RECURSIVE insert_oldest_first(_, _)
\* insert_newest_first with the comparison the wrong way round.
insert_oldest_first(run, sorted) ==
    IF sorted = <<>> THEN <<run>>
    ELSE IF str_lt(run.timestamp, Head(sorted).timestamp) THEN <<run>> \o sorted
    ELSE <<Head(sorted)>> \o insert_oldest_first(run, Tail(sorted))

RECURSIVE insert_newest_first(_, _)
\* Where a stable sort by descending timestamp puts a run that came after
\* the ones already sorted: before the first run with a smaller timestamp.
insert_newest_first(run, sorted) ==
    IF sorted = <<>> THEN <<run>>
    ELSE IF str_lt(Head(sorted).timestamp, run.timestamp) THEN <<run>> \o sorted
    ELSE <<Head(sorted)>> \o insert_newest_first(run, Tail(sorted))

RECURSIVE sort_newest_first(_)
\* all_runs.sort(key=timestamp, reverse=True)
sort_newest_first(runs) ==
    IF runs = <<>> THEN <<>>
    ELSE insert_newest_first(runs[Len(runs)],
                             sort_newest_first(SubSeq(runs, 1, Len(runs) - 1)))

\* first_run_without that does not look at the failed tests of a run: the
\* newest run.
first_run_of_any(test, runs) ==
    IF runs = <<>> THEN NoRun ELSE Head(runs)

RECURSIVE first_run_without(_, _)
\* The first of the runs that does not list the test as failed, or None.
first_run_without(test, runs) ==
    IF runs = <<>> THEN NoRun
    ELSE IF test \notin Range(Head(runs).failed_tests) THEN Head(runs)
    ELSE first_run_without(test, Tail(runs))

find_last_successful_run_for_tests(branch_name, failed_tests) ==
    IF branch_name.kind = "missing"
    THEN [test \in Range(failed_tests) |-> NoRun]
    ELSE LET runs == sort_newest_first(all_runs(branch_name.files))
         IN  [test \in Range(failed_tests) |-> first_run_without(test, runs)]

MaxHistory == 3
MaxCurrentFailed == 2

Tests == {"x", "y"}

\* Timestamps of one minute, from the seconds on: isoformat() leaves out the
\* fraction of a whole second.
Timestamps == {<<"0", "Z">>, <<"0", ".", "1", "Z">>, <<"1", "Z">>}

FailedLists == {<<>>, <<"x">>, <<"y">>, <<"x", "y">>}

\* The files a branch may hold, the runs still without their run id.
Files ==
    {Run("", t, <<>>, f, UnknownCommit) : t \in Timestamps, f \in FailedLists}
    \cup {CorruptFile, OtherFile}

\* The files with the runs numbered in the order of storing.
Numbered(files) ==
    [i \in 1..Len(files) |->
        IF files[i].kind = "run"
        THEN [files[i] EXCEPT !.workflow_run_id = ToString(i)]
        ELSE files[i]]

Branches == {MissingBranch} \cup {Branch(Numbered(files)) : files \in SeqsUpTo(Files, MaxHistory)}

\* The snapshot of the current run, of which only failed_tests varies.
CurrentRuns == {Run("9", <<"1", "Z">>, <<>>, f, UnknownCommit) : f \in SeqsUpTo(Tests, MaxCurrentFailed)}

InitResolve ==
    /\ branch \in Branches
    /\ current_data \in CurrentRuns
    /\ test_last_success = <<>>
    /\ test_sections = <<>>
    /\ comparison = None
    /\ op = "init"
    /\ py_version \in PyVersions
    /\ CompressorIdle
    /\ MainIdle
    /\ DiffIdle
    /\ CallIdle

CallFindLastSuccessfulRunForTests ==
    /\ op = "init"
    /\ op' = "find_last_successful_run_for_tests"
    /\ test_last_success' =
            find_last_successful_run_for_tests(branch, current_data.failed_tests)
    /\ UNCHANGED <<branch, current_data, test_sections, comparison, py_version,
                   compressorVars, mainVars, diffVars, callVars>>

NextResolve == CallFindLastSuccessfulRunForTests

SpecResolve == InitResolve /\ [][NextResolve]_vars

(***************************************************************************)
(* track_packages.py: the bisection comparison                             *)
(***************************************************************************)

\* commit_message[:60] + ("..." if len(commit_message) > 60 else "")
truncated_message(commit_message) ==
    commit_message.head \o (IF commit_message.rest # "" THEN "..." ELSE "")

\* The line that tells the run a test last passed in.
last_passed_line(last_success) ==
    "- Last passed in run #" \o last_success.workflow_run_id \o " on "
        \o Join(last_success.timestamp, "")

\* format_test_section without its package block when nothing changed.
format_test_section_changes_only(test, last_success, packages, git) ==
    IF last_success # NoRun
    THEN LET package_changes_ == get_package_changes(packages, last_success.packages)
         IN  <<"## " \o test>>
             \o (IF package_changes_ # <<>>
                 THEN <<"### Package changes since last pass">> \o package_changes_
                 ELSE <<>>)
             \o <<"### Code changes since last pass", "- No code changes detected",
                  last_passed_line(last_success)>>
    ELSE <<"## " \o test, "### Analysis", "- No recent successful run found for this test">>

\* One turn of the loop of format_bisect_comparison: the lines of the
\* section of one failing test.
format_test_section(test, last_success, packages, git) ==
    IF last_success # NoRun
    THEN LET last_success_packages == last_success.packages
             last_success_git == last_success.git
             package_changes_ == get_package_changes(packages, last_success_packages)
         IN  <<"## " \o test>>
             \o (IF package_changes_ # <<>>
                 THEN <<"### Package changes since last pass">> \o package_changes_
                 ELSE <<"### Package changes since last pass",
                        "- No package changes detected">>)
             \o (IF git.commit_hash # last_success_git.commit_hash
                 THEN <<"### Code changes since last pass",
                        "- " \o last_success_git.commit_hash_short \o " ("
                            \o truncated_message(last_success_git.commit_message) \o ")",
                        "- → " \o git.commit_hash_short \o " ("
                            \o truncated_message(git.commit_message) \o ")",
                        last_passed_line(last_success)>>
                 ELSE <<"### Code changes since last pass",
                        "- No code changes detected",
                        last_passed_line(last_success)>>)
    ELSE <<"## " \o test, "### Analysis", "- No recent successful run found for this test">>

\* test_sections before each section is joined: one sequence of lines for
\* each entry of failed_tests.
bisect_sections(current, branch_name) ==
    LET failed_tests == current.failed_tests
        lookup == find_last_successful_run_for_tests(branch_name, failed_tests)
    IN  [i \in 1..Len(failed_tests) |->
            format_test_section(failed_tests[i], lookup[failed_tests[i]],
                                current.packages, current.git)]

\* format_bisect_comparison that has nothing to compare with when there is
\* no previous_data.
format_bisect_comparison_with_previous(current, previous_data, branch_name) ==
    IF current.failed_tests = <<>> \/ previous_data = NoRun THEN None
    ELSE LET sections == bisect_sections(current, branch_name)
         IN  Join([i \in 1..Len(sections) |-> Join(sections[i], "\n")], "\n\n") \o "\n\n"

\* format_bisect_comparison without the newlines after the last section.
format_bisect_comparison_no_trailer(current, previous_data, branch_name) ==
    IF current.failed_tests = <<>> THEN None
    ELSE LET sections == bisect_sections(current, branch_name)
         IN  Join([i \in 1..Len(sections) |-> Join(sections[i], "\n")], "\n\n")

format_bisect_comparison(current, previous_data, branch_name) ==
    IF current.failed_tests = <<>> THEN None
    ELSE LET sections == bisect_sections(current, branch_name)
             test_sections_ == [i \in 1..Len(sections) |-> Join(sections[i], "\n")]
         IN  IF test_sections_ # <<>>
             THEN Join(test_sections_, "\n\n") \o "\n\n"
             ELSE None

MaxFormatHistory == 2
MaxFormatFailed == 2

\* The package snapshot and the commit of the current run.
CurrentPackages == <<<<"numpy", StrInfo("2.0")>>>>
CurrentCommit == Commit("abcdef1234567890", "abcdef12", "fix", "")

\* A commit with a message of more than 60 characters.
EarlierCommit == Commit("0123456789abcdef", "01234567", Repeat("m", 60), "more")

\* The package snapshot and the commit a stored run may have: those of the
\* current run, or an earlier version of the package at an earlier commit,
\* or the packages of the current run where git failed.
Environments ==
    {<<CurrentPackages, CurrentCommit>>,
     <<<<<<"numpy", StrInfo("1.0")>>>>, EarlierCommit>>,
     <<CurrentPackages, UnknownCommit>>}

FormatFiles ==
    {Run("", t, e[1], f, e[2]) :
        t \in {<<"0", "Z">>, <<"1", "Z">>}, f \in {<<>>, <<"x">>}, e \in Environments}
    \cup {CorruptFile}

FormatBranches ==
    {MissingBranch}
    \cup {Branch(Numbered(files)) : files \in SeqsUpTo(FormatFiles, MaxFormatHistory)}

FormatCurrentRuns ==
    {Run("9", <<"1", "Z">>, CurrentPackages, f, g) :
        f \in SeqsUpTo(Tests, MaxFormatFailed), g \in {CurrentCommit, UnknownCommit}}

\* The previous_data main passes: what retrieve_last_successful_run found,
\* none or a stored run that passed.
PreviousData(branch_name) ==
    {NoRun} \cup
    (IF branch_name.kind = "missing" THEN {}
     ELSE {f \in Range(branch_name.files) : f.kind = "run" /\ f.test_status = "passed"})

InitFormat ==
    /\ branch \in FormatBranches
    /\ current_data \in FormatCurrentRuns
    /\ test_last_success = <<>>
    /\ test_sections = <<>>
    /\ comparison = None
    /\ op = "init"
    /\ py_version \in PyVersions
    /\ CompressorIdle
    /\ MainIdle
    /\ DiffIdle
    /\ CallIdle

CallFormatBisectComparison ==
    /\ op = "init"
    /\ op' = "format_bisect_comparison"
    /\ \E previous_data \in PreviousData(branch) :
          comparison' = format_bisect_comparison(current_data, previous_data, branch)
    /\ test_last_success' =
            IF current_data.failed_tests = <<>> THEN <<>>
            ELSE find_last_successful_run_for_tests(branch, current_data.failed_tests)
    /\ test_sections' =
            IF current_data.failed_tests = <<>> THEN <<>>
            ELSE bisect_sections(current_data, branch)
    /\ UNCHANGED <<branch, current_data, py_version, compressorVars, mainVars, diffVars, callVars>>

NextFormat == CallFormatBisectComparison

SpecFormat == InitFormat /\ [][NextFormat]_vars

\* The comparison of a run formatted twice, main and generate_comparison
\* passing what retrieve_last_successful_run and find_last_successful_run
\* found as previous_data.
InitFormatTwice ==
    /\ branch \in FormatBranches
    /\ current_data \in {run \in FormatCurrentRuns : run.git = CurrentCommit}
    /\ test_last_success = <<>>
    /\ test_sections = <<>>
    /\ comparison = None
    /\ argument = <<>>
    /\ returned = <<>>
    /\ op = "init"
    /\ py_version \in PyVersions
    /\ CompressorIdle
    /\ MainIdle
    /\ DiffIdle

FormatWithPreviousData ==
    /\ op = "init"
    /\ op' = "format_bisect_comparison"
    /\ \E previous_data \in PreviousData(branch) :
          /\ argument' = <<previous_data>>
          /\ comparison' = format_bisect_comparison(current_data, previous_data, branch)
    /\ UNCHANGED <<branch, current_data, test_last_success, test_sections, returned,
                   py_version, compressorVars, mainVars, diffVars>>

FormatWithOtherPreviousData ==
    /\ op = "format_bisect_comparison"
    /\ op' = "generate_comparison"
    /\ \E previous_data \in PreviousData(branch) \ {argument[1]} :
          /\ argument' = Append(argument, previous_data)
          /\ returned' = format_bisect_comparison(current_data, previous_data, branch)
    /\ UNCHANGED <<branch, current_data, test_last_success, test_sections, comparison,
                   py_version, compressorVars, mainVars, diffVars>>

NextFormatTwice == FormatWithPreviousData \/ FormatWithOtherPreviousData

SpecFormatTwice == InitFormatTwice /\ [][NextFormatTwice]_vars

(***************************************************************************)
(* track_packages.py: the snapshot of the current run                      *)
(*                                                                         *)
(* The log is a file of lines; a line is a JSON object, of which the keys  *)
(* "$report_type", "outcome" and "nodeid" are kept (None for a key that is *)
(* not there), or text json.loads rejects.                                 *)
(***************************************************************************)

\* A line that holds a JSON object; when_ is the phase of a TestReport,
\* which the function does not read.
LogRecord(report_type, when_, outcome, nodeid) ==
    [kind |-> "record", report_type |-> report_type, when_ |-> when_,
     outcome |-> outcome, nodeid |-> nodeid]

\* A line json.loads raises JSONDecodeError on.
MalformedLine == [kind |-> "malformed"]

\* The test of the loop of extract_failed_tests_from_log on a record.
is_failed_record(record) ==
    /\ record.report_type \in {"TestReport", "CollectReport"}
    /\ record.outcome = "failed"
    /\ record.nodeid \notin {None, ""}

RECURSIVE failed_nodeids(_)
\* The loop of extract_failed_tests_from_log over the lines of the file.
failed_nodeids(lines) ==
    IF lines = <<>> THEN <<>>
    ELSE (IF Head(lines).kind = "malformed" THEN <<>>
          ELSE IF is_failed_record(Head(lines)) THEN <<Head(lines).nodeid>>
          ELSE <<>>)
            \o failed_nodeids(Tail(lines))

\* A log file: whether it exists, and its lines.
LogFile(exists, lines) == [exists |-> exists, lines |-> lines]

RECURSIVE lines_before_malformed(_)
\* The lines of a log up to its first malformed line.
lines_before_malformed(lines) ==
    IF lines = <<>> \/ Head(lines).kind = "malformed" THEN <<>>
    ELSE <<Head(lines)>> \o lines_before_malformed(Tail(lines))

\* extract_failed_tests_from_log with json.JSONDecodeError caught around
\* the loop: the rest of the log is left unread.
extract_failed_tests_from_log_unread_rest(log_file) ==
    IF ~log_file.exists THEN <<>>
    ELSE failed_nodeids(lines_before_malformed(log_file.lines))

\* open(log_path) raises FileNotFoundError for a file that is not there.
extract_failed_tests_from_log(log_file) ==
    IF ~log_file.exists THEN <<>> ELSE failed_nodeids(log_file.lines)

\* create_bisect_data for the log at log_path, what the clock, the
\* environment and git give being arguments here.
create_bisect_data(log_path, log_file, workflow_run_id, timestamp, packages, git) ==
    LET failed_tests ==
            IF log_path \notin {None, ""} /\ log_file.exists
            THEN extract_failed_tests_from_log(log_file)
            ELSE <<>>
    IN  Run(workflow_run_id, timestamp, packages, failed_tests, git)

MaxLogLines == 3

\* The lines of the logs of the model: a test a that fails in its call and
\* in its teardown, a test b that fails or passes, a collection error of the
\* whole session (empty node id), a module that is not collected, a record of
\* another kind, and a malformed line.
LogLines ==
    {LogRecord("TestReport", "call", "failed", "a"),
     LogRecord("TestReport", "teardown", "failed", "a"),
     LogRecord("TestReport", "call", "failed", "b"),
     LogRecord("TestReport", "call", "passed", "b"),
     LogRecord("CollectReport", None, "failed", ""),
     LogRecord("CollectReport", None, "failed", "m"),
     LogRecord("SessionStart", None, None, None),
     MalformedLine}

\* The logs of up to MaxLogLines lines: pytest writes a record once.
Logs ==
    {lines \in SeqsUpTo(LogLines, MaxLogLines) :
        \A i, j \in 1..Len(lines) :
            lines[i] = lines[j] /\ lines[i].kind = "record" => i = j}

\* What create_bisect_data is called with: no log path, the path of a file
\* that is not there, or the path of a log.
CreateArguments ==
    {[log_path |-> None, log_file |-> LogFile(FALSE, <<>>)],
     [log_path |-> "", log_file |-> LogFile(FALSE, <<>>)],
     [log_path |-> "pytest-log.jsonl", log_file |-> LogFile(FALSE, <<>>)]}
    \cup {[log_path |-> "pytest-log.jsonl", log_file |-> LogFile(TRUE, lines)] :
            lines \in Logs}

InitCreate ==
    /\ argument \in CreateArguments
    /\ returned = <<>>
    /\ op = "init"
    /\ py_version \in PyVersions
    /\ CompressorIdle
    /\ MainIdle
    /\ DiffIdle
    /\ BisectIdle

CallCreateBisectData ==
    /\ op = "init"
    /\ op' = "create_bisect_data"
    /\ \E timestamp \in Timestamps, git \in {CurrentCommit, UnknownCommit} :
          returned' = create_bisect_data(argument.log_path, argument.log_file, "9",
                                         timestamp, CurrentPackages, git)
    /\ UNCHANGED <<argument, py_version, compressorVars, mainVars, diffVars, bisectVars>>

NextCreate == CallCreateBisectData

SpecCreate == InitCreate /\ [][NextCreate]_vars

(***************************************************************************)
(* capture_versions.py: the git hash embedded in a version string          *)
(*                                                                         *)
(* A version string is a sequence of characters.  re.search with           *)
(* re.IGNORECASE is modelled for the three patterns of the function: a     *)
(* literal prefix and then a greedy group of 7 to 40 characters of         *)
(* [a-f0-9].                                                               *)
(***************************************************************************)

\* [a-f0-9] under re.IGNORECASE.
is_hex(c) ==
    c \in {"0", "1", "2", "3", "4", "5", "6", "7", "8", "9",
           "a", "b", "c", "d", "e", "f", "A", "B", "C", "D", "E", "F"}

RECURSIVE hex_run(_, _)
\* How many characters of [a-f0-9] follow one another from position i on.
hex_run(version_string, i) ==
    IF i > Len(version_string) THEN 0
    ELSE IF is_hex(version_string[i]) THEN 1 + hex_run(version_string, i + 1)
    ELSE 0

\* The patterns in the wrong order: "+g" before ".g".
patterns_plus_first == <<<<"+", "g">>, <<".", "g">>, <<"g">>>>

\* The literal prefixes of the patterns, in the order they are tried.
patterns == <<<<".", "g">>, <<"+", "g">>, <<"g">>>>

\* Whether a character of the string matches a literal of a pattern under
\* re.IGNORECASE.
literal_matches(literal, c) ==
    IF literal = "g" THEN c \in {"g", "G"} ELSE c = literal

\* Whether the pattern matches at position i: its prefix, then at least 7
\* characters of [a-f0-9].
match_at(pattern, version_string, i) ==
    /\ i + Len(pattern) - 1 <= Len(version_string)
    /\ \A k \in 1..Len(pattern) : literal_matches(pattern[k], version_string[i + k - 1])
    /\ hex_run(version_string, i + Len(pattern)) >= 7

\* A group that takes every character of the run.
group_length_uncapped(run) == run

\* The length of the greedy group {7,40} on a run of at least 7 characters.
group_length(run) == IF run > 40 THEN 40 ELSE run

\* re.search(pattern, version_string, re.IGNORECASE): group 1 of the
\* leftmost match, or NoneChars.
re_search(pattern, version_string) ==
    LET starts == {i \in 1..Len(version_string) : match_at(pattern, version_string, i)}
    IN  IF starts = {} THEN NoneChars
        ELSE LET i == CHOOSE j \in starts : \A k \in starts : j <= k
                 from == i + Len(pattern)
             IN  SubSeq(version_string, from,
                        from + group_length(hex_run(version_string, from)) - 1)

RECURSIVE first_match(_, _)
\* The loop over the patterns: the group of the first pattern that matches.
first_match(ps, version_string) ==
    IF ps = <<>> THEN NoneChars
    ELSE LET match == re_search(Head(ps), version_string)
         IN  IF match # NoneChars THEN match
             ELSE first_match(Tail(ps), version_string)

extract_git_hash_from_version(version_string) == first_match(patterns, version_string)

MaxSegments == 2

\* The hex digit the run of the i-th segment of a version string is made of.
RunDigits == <<"a", "1", "F", "0">>

RECURSIVE Chars(_, _)
\* n times the character c.
Chars(c, n) == IF n = 0 THEN <<>> ELSE <<c>> \o Chars(c, n - 1)

\* The shapes of a segment: a separator or none, g in either case, and how
\* many hex digits follow: none, one fewer than 7, 7, 40, one more than 40.
SegmentShapes ==
    {<<sep, g, n>> : sep \in {<<".">>, <<"+">>, <<>>}, g \in {"g", "G"},
                     n \in {0, 6, 7, 40, 41}}

RECURSIVE SegmentsFrom(_, _)
\* The characters of the segments of the shapes, the i-th with its own digit.
SegmentsFrom(shapes, i) ==
    IF i > Len(shapes) THEN <<>>
    ELSE shapes[i][1] \o <<shapes[i][2]>> \o Chars(RunDigits[i], shapes[i][3])
            \o SegmentsFrom(shapes, i + 1)

\* The version strings of the model: nothing or "1.0", then segments.
VersionStrings ==
    {prefix \o SegmentsFrom(shapes, 1) :
        prefix \in {<<>>, <<"1", ".", "0">>}, shapes \in SeqsUpTo(SegmentShapes, MaxSegments)}

InitGitHash ==
    /\ argument \in VersionStrings
    /\ returned = <<>>
    /\ op = "init"
    /\ py_version \in PyVersions
    /\ CompressorIdle
    /\ MainIdle
    /\ DiffIdle
    /\ BisectIdle

CallExtractGitHashFromVersion ==
    /\ op = "init"
    /\ op' = "extract_git_hash_from_version"
    /\ returned' = extract_git_hash_from_version(argument)
    /\ UNCHANGED <<argument, py_version, compressorVars, mainVars, diffVars, bisectVars>>

NextGitHash == CallExtractGitHashFromVersion

SpecGitHash == InitGitHash /\ [][NextGitHash]_vars

(***************************************************************************)
(* parse_logs.py: stripping the escape sequences of a message              *)
(*                                                                         *)
(* A message is a sequence of characters; "ESC" stands for the character   *)
(* 0x1B.  ansi_fe_escape_re.sub("", msg) goes through the message from the *)
(* left once, leaving out every match and going on after it.               *)
(***************************************************************************)

\* The code point of the characters messages are made of.
byte_of(c) ==
    CASE c = "ESC" -> 27 [] c = "\n" -> 10 [] c = "!" -> 33 [] c = "0" -> 48
      [] c = "M" -> 77 [] c = "[" -> 91 [] c = "m" -> 109

\* fe_bytes, parameter_bytes, intermediate_bytes, final_bytes
is_fe_byte(c) == byte_of(c) \in 64..95
is_parameter_byte(c) == byte_of(c) \in 48..63
is_intermediate_byte(c) == byte_of(c) \in 32..47
is_final_byte(c) == byte_of(c) \in 64..126

RECURSIVE skip_parameter_bytes(_, _)
\* The position after the parameter bytes that start at position i.
skip_parameter_bytes(msg, i) ==
    IF i <= Len(msg) /\ is_parameter_byte(msg[i])
    THEN skip_parameter_bytes(msg, i + 1) ELSE i

RECURSIVE skip_intermediate_bytes(_, _)
\* The position after the intermediate bytes that start at position i.
skip_intermediate_bytes(msg, i) ==
    IF i <= Len(msg) /\ is_intermediate_byte(msg[i])
    THEN skip_intermediate_bytes(msg, i + 1) ELSE i

\* The position after the match of ansi_fe_escape_re at position i, or 0
\* when it does not match there: ESC, then a CSI sequence or, failing that,
\* one Fe byte.
match_end(msg, i) ==
    IF msg[i] # "ESC" \/ i = Len(msg) THEN 0
    ELSE LET final == skip_intermediate_bytes(msg, skip_parameter_bytes(msg, i + 2))
         IN  IF msg[i + 1] = "[" /\ final <= Len(msg) /\ is_final_byte(msg[final])
             THEN final + 1
             ELSE IF is_fe_byte(msg[i + 1]) THEN i + 2
             ELSE 0

RECURSIVE sub_from(_, _)
\* re.sub from position i on.
sub_from(msg, i) ==
    IF i > Len(msg) THEN <<>>
    ELSE IF match_end(msg, i) # 0 THEN sub_from(msg, match_end(msg, i))
    ELSE <<msg[i]>> \o sub_from(msg, i + 1)

strip_ansi(msg) == sub_from(msg, 1)

MaxMessageLen == 5

\* ESC, a character of no class, an intermediate byte, a parameter byte, an
\* Fe byte, "[", and a final byte that is no Fe byte.
MessageChars == {"ESC", "\n", "!", "0", "M", "[", "m"}

InitStripAnsi ==
    /\ argument \in SeqsUpTo(MessageChars, MaxMessageLen)
    /\ returned = <<>>
    /\ op = "init"
    /\ py_version \in PyVersions
    /\ CompressorIdle
    /\ MainIdle
    /\ DiffIdle
    /\ BisectIdle

\* PreformattedReport.__post_init__: the message the report keeps.
CallStripAnsi ==
    /\ op = "init"
    /\ op' = "strip_ansi"
    /\ returned' = strip_ansi(argument)
    /\ UNCHANGED <<argument, py_version, compressorVars, mainVars, diffVars, bisectVars>>

NextStripAnsi == CallStripAnsi

SpecStripAnsi == InitStripAnsi /\ [][NextStripAnsi]_vars

(***************************************************************************)
(* parse_logs.py: the parts of a node id                                   *)
(*                                                                         *)
(* A node id is a sequence of characters.  nodeid_re is                    *)
(* (?P<filepath>.+?)::(?P<name>.+?)(?:\[(?P<variant>.+)\])? and has to     *)
(* match the whole string; "." matches every character but the line break. *)
(***************************************************************************)

\* ".+" matches the characters of str: there is one at least and none is a
\* line break.
dot_plus(str) == str # <<>> /\ \A k \in DOMAIN str : str[k] # "\n"

\* (?:\[(?P<variant>.+)\])? matches rest up to its end by its group.
variant_group_matches(rest) ==
    /\ Len(rest) >= 3
    /\ rest[1] = "["
    /\ rest[Len(rest)] = "]"
    /\ dot_plus(SubSeq(rest, 2, Len(rest) - 1))

\* The lengths (?P<name>.+?) can have at the start of rest for what follows
\* it to match up to the end.
name_lengths(rest) ==
    {j \in 1..Len(rest) :
        /\ dot_plus(SubSeq(rest, 1, j))
        /\ \/ j = Len(rest)
           \/ variant_group_matches(SubSeq(rest, j + 1, Len(rest)))}

\* The lengths (?P<filepath>.+?) can have for what follows it to match.
filepath_lengths(nodeid) ==
    {i \in 1..(Len(nodeid) - 2) :
        /\ dot_plus(SubSeq(nodeid, 1, i))
        /\ nodeid[i + 1] = ":"
        /\ nodeid[i + 2] = ":"
        /\ name_lengths(SubSeq(nodeid, i + 3, Len(nodeid))) # {}}

\* The smallest number of a non-empty set: what a lazy quantifier settles
\* for.
least(lengths) == CHOOSE n \in lengths : \A m \in lengths : n <= m

ValueError == [kind |-> "ValueError"]

\* match.groupdict()
groupdict(filepath, name, variant) ==
    [kind |-> "dict", filepath |-> filepath, name |-> name, variant |-> variant]

parse_nodeid(nodeid) ==
    IF filepath_lengths(nodeid) = {} THEN ValueError
    ELSE LET i == least(filepath_lengths(nodeid))
             rest == SubSeq(nodeid, i + 3, Len(nodeid))
             j == least(name_lengths(rest))
         IN  groupdict(SubSeq(nodeid, 1, i),
                       SubSeq(rest, 1, j),
                       IF j = Len(rest) THEN NoneChars
                       ELSE SubSeq(rest, j + 2, Len(rest) - 1))

MaxNodeidLen == 6

\* A character that stands for itself, the ones of the separators and of the
\* brackets, and the line break.
NodeidChars == {"t", ":", "[", "]", "\n"}

InitParseNodeid ==
    /\ argument \in SeqsUpTo(NodeidChars, MaxNodeidLen)
    /\ returned = <<>>
    /\ op = "init"
    /\ py_version \in PyVersions
    /\ CompressorIdle
    /\ MainIdle
    /\ DiffIdle
    /\ BisectIdle

CallParseNodeid ==
    /\ op = "init"
    /\ op' = "parse_nodeid"
    /\ returned' = parse_nodeid(argument)
    /\ UNCHANGED <<argument, py_version, compressorVars, mainVars, diffVars, bisectVars>>

NextParseNodeid == CallParseNodeid

SpecParseNodeid == InitParseNodeid /\ [][NextParseNodeid]_vars

(***************************************************************************)
(* track_packages.py: the versions of the requested packages               *)
(*                                                                         *)
(* A dict is the sequence of its items in insertion order.  The captured   *)
(* versions file and what pip answers are arguments of the model.          *)
(***************************************************************************)

\* str.lower() on the package names of the model.
lower(name) == IF name \in {"ALL", "All"} THEN "all" ELSE name

\* versions[package] = info without looking for the key: an item is added
\* for every assignment.
dict_append(versions, package, info) == Append(versions, <<package, info>>)

\* versions[package] = info: the value of a key that is there is replaced
\* where it is, a new key is added at the end.
dict_set(versions, package, info) ==
    IF package \in dict_keys(versions)
    THEN [i \in 1..Len(versions) |->
            IF versions[i][1] = package THEN <<package, info>> ELSE versions[i]]
    ELSE Append(versions, <<package, info>>)

RECURSIVE versions_of(_, _, _)
\* The loop over the requested packages: installed is the dict the values
\* are got from, with None for a name it does not hold.
versions_of(versions, packages, installed) ==
    IF packages = <<>> THEN versions
    ELSE versions_of(dict_set(versions, Head(packages),
                              package_get(installed, Head(packages))),
                     Tail(packages), installed)

\* The captured versions file: no path given, a path of no file, a file that
\* cannot be read as JSON, and a file with JSON data, of which the key
\* "packages" is kept (an empty dict when it is not there).
NoCapturedFile == [kind |-> "none"]
MissingCapturedFile == [kind |-> "missing"]
UnreadableCapturedFile == [kind |-> "unreadable"]
CapturedFile(captured_packages) ==
    [kind |-> "data", captured_packages |-> captured_packages]

\* get_current_package_versions; pip holds what get_package_version and
\* get_all_installed_packages find installed.
get_current_package_versions(packages, captured_versions_file, pip) ==
    LET all == Len(packages) = 1 /\ lower(packages[1]) = "all"
    IN  IF captured_versions_file.kind = "data"
        THEN IF all THEN captured_versions_file.captured_packages
             ELSE versions_of(<<>>, packages,
                              captured_versions_file.captured_packages)
        ELSE IF all THEN pip
        ELSE versions_of(<<>>, packages, pip)

MaxRequested == 3

\* The names a run can ask for: two packages, one that is not installed,
\* and the word for every package.
RequestedNames == {"numpy", "mypkg", "nopkg", "all", "ALL"}

\* What pip finds installed.
Installed ==
    {<<>>,
     <<<<"numpy", StrInfo("2.0")>>>>,
     <<<<"mypkg", StrInfo("1.0")>>, <<"numpy", StrInfo("2.0")>>>>}

\* What the captured versions file holds.
CapturedFiles ==
    {NoCapturedFile, MissingCapturedFile, UnreadableCapturedFile,
     CapturedFile(<<>>),
     CapturedFile(<<<<"numpy", DictInfo("2.0", GitInfo(NoneChars))>>,
                    <<"mypkg", DictInfo("1.0", NoGitInfoKey)>>>>)}

InitVersions ==
    /\ argument \in [packages : SeqsUpTo(RequestedNames, MaxRequested) \ {<<>>},
                     captured_versions_file : CapturedFiles]
    /\ returned = <<>>
    /\ op = "init"
    /\ py_version \in PyVersions
    /\ CompressorIdle
    /\ MainIdle
    /\ DiffIdle
    /\ BisectIdle

CallGetCurrentPackageVersions ==
    /\ op = "init"
    /\ op' = "get_current_package_versions"
    /\ \E pip \in Installed :
          returned' = get_current_package_versions(argument.packages,
                                                   argument.captured_versions_file, pip)
    /\ UNCHANGED <<argument, py_version, compressorVars, mainVars, diffVars, bisectVars>>

NextVersions == CallGetCurrentPackageVersions

SpecVersions == InitVersions /\ [][NextVersions]_vars

(***************************************************************************)
(* track_packages.py, simple_bisect.py: storing the snapshot of a run      *)
(*                                                                         *)
(* The files of the bisection branch are a function from file names to the *)
(* runs they hold: the remote branch store_bisect_data_to_branch pushes    *)
(* to, the checked out branch create_run_data_file writes into.  A file    *)
(* name is a sequence of characters and of pieces of text; the JSON text   *)
(* of a file stands for the run it was dumped from.                        *)
(***************************************************************************)

RECURSIVE str_replace(_, _, _)
\* str.replace(old, new) for a character old; new is a sequence of
\* characters.
str_replace(str, old, new) ==
    IF str = <<>> THEN <<>>
    ELSE (IF Head(str) = old THEN new ELSE <<Head(str)>>)
            \o str_replace(Tail(str), old, new)

\* f"run_{data['workflow_run_id']}_{data['timestamp'].replace(':', '-').replace('Z', '')}.json"
run_filename(data) ==
    <<"run_", data.workflow_run_id, "_">>
        \o str_replace(str_replace(data.timestamp, ":", <<"-">>), "Z", <<>>)
        \o <<".json">>

\* pathlib.Path(filename).write_text(json.dumps(data, indent=2)): the file
\* holds the run, whatever it held.
write_text(files, filename, data) ==
    [f \in DOMAIN files \cup {filename} |->
        IF f = filename THEN data ELSE files[f]]

\* What the two functions return.
PyBool(b) == [kind |-> "bool", value |-> b]
PyStrOf(chars) == [kind |-> "str", value |-> chars]

\* git commit fails when the file written holds what the branch holds
\* already: there is nothing to commit.
nothing_to_commit(files, filename, data) ==
    filename \in DOMAIN files /\ files[filename] = data

MaxRunIds == 2

\* Timestamps of one hour, from the minutes on.
StoreTimestamps == {<<"0", ":", "0", "Z">>, <<"0", ":", "1", "Z">>}

\* The runs to store: of a run id, at a timestamp, without or with a failed
\* test.
StoreData ==
    {Run(ToString(id), t, CurrentPackages, f, CurrentCommit) :
        id \in 1..MaxRunIds, t \in StoreTimestamps, f \in {<<>>, <<"x">>}}

\* The branch does not exist yet and nothing was called.
InitStore ==
    /\ branch = <<>>
    /\ argument = <<>>
    /\ returned = NoRun
    /\ op = "init"
    /\ py_version \in PyVersions
    /\ current_data = <<>>
    /\ test_last_success = <<>>
    /\ test_sections = <<>>
    /\ comparison = None
    /\ CompressorIdle
    /\ MainIdle
    /\ DiffIdle

\* store_bisect_data_to_branch(data, branch_name): git_fails says that one of
\* the git commands run with check=True fails for a reason of its own (no
\* permission, no network, a push that is rejected).
StoreBisectDataToBranch ==
    \E data \in StoreData, git_fails \in BOOLEAN :
        /\ op' = "store_bisect_data_to_branch"
        /\ argument' = data
        /\ IF git_fails \/ nothing_to_commit(branch, run_filename(data), data)
           THEN /\ branch' = branch
                /\ returned' = PyBool(FALSE)
           ELSE /\ branch' = write_text(branch, run_filename(data), data)
                /\ returned' = PyBool(TRUE)
        /\ UNCHANGED <<current_data, test_last_success, test_sections, comparison,
                       py_version, compressorVars, mainVars, diffVars>>

\* create_run_data_file: data is what create_bisect_data returns for the
\* run id of the environment at the time of the clock.
CreateRunDataFile ==
    \E data \in StoreData :
        /\ op' = "create_run_data_file"
        /\ argument' = data
        /\ branch' = write_text(branch, run_filename(data), data)
        /\ returned' = PyStrOf(run_filename(data))
        /\ UNCHANGED <<current_data, test_last_success, test_sections, comparison,
                       py_version, compressorVars, mainVars, diffVars>>

NextStore == StoreBisectDataToBranch \/ CreateRunDataFile

SpecStore == InitStore /\ [][NextStore]_vars

(***************************************************************************)
(* track_packages.py: the last-good runs before and after a run is stored  *)
(*                                                                         *)
(* main resolves the last-good runs of the failing tests when it generates *)
(* the comparison; a run stored in between is one more file of the branch, *)
(* at the place git ls-tree gives its name.                                *)
(***************************************************************************)

MaxStoredBefore == 2

\* The files the branch holds before the run is stored.
FilesBefore ==
    {Numbered(files) : files \in SeqsUpTo(Files \ {OtherFile}, MaxStoredBefore)}

\* The failing tests of the current run.
FailingNow == FailedLists \ {<<>>}

InitStoredBetween ==
    /\ branch \in {MissingBranch} \cup {Branch(files) : files \in FilesBefore}
    /\ current_data \in {Run("9", <<"1", "Z">>, <<>>, f, UnknownCommit) : f \in FailingNow}
    /\ test_last_success = <<>>
    /\ test_sections = <<>>
    /\ comparison = None
    /\ argument = <<>>
    /\ returned = <<>>
    /\ op = "init"
    /\ py_version \in PyVersions
    /\ CompressorIdle
    /\ MainIdle
    /\ DiffIdle

\* The comparison is generated before the run is stored.
ResolveBefore ==
    /\ op = "init"
    /\ op' = "find_last_successful_run_for_tests"
    /\ test_last_success' =
            find_last_successful_run_for_tests(branch, current_data.failed_tests)
    /\ UNCHANGED <<branch, current_data, test_sections, comparison, py_version,
                   compressorVars, mainVars, diffVars, callVars>>

\* A run is stored: the current run, or another run that fails one of its
\* tests, with the timestamp of its own clock.  A branch that was missing is
\* created with the file.
StoreRun ==
    /\ op = "find_last_successful_run_for_tests"
    /\ op' = "store_bisect_data_to_branch"
    /\ \E timestamp \in Timestamps, failed_tests \in FailingNow :
          /\ Range(failed_tests) \cap Range(current_data.failed_tests) # {}
          /\ argument' = Run("9", timestamp, <<>>, failed_tests, UnknownCommit)
    /\ \E place \in 0..(IF branch.kind = "missing" THEN 0 ELSE Len(branch.files)) :
          branch' = IF branch.kind = "missing" THEN Branch(<<argument'>>)
                    ELSE Branch(SubSeq(branch.files, 1, place) \o <<argument'>>
                                \o SubSeq(branch.files, place + 1, Len(branch.files)))
    /\ UNCHANGED <<current_data, test_last_success, test_sections, comparison,
                   returned, py_version, compressorVars, mainVars, diffVars>>

\* The comparison is generated after the run is stored.
ResolveAfter ==
    /\ op = "store_bisect_data_to_branch"
    /\ op' = "generate_comparison"
    /\ returned' = find_last_successful_run_for_tests(branch, current_data.failed_tests)
    /\ UNCHANGED <<branch, current_data, test_last_success, test_sections, comparison,
                   argument, py_version, compressorVars, mainVars, diffVars>>

NextStoredBetween == ResolveBefore \/ StoreRun \/ ResolveAfter

SpecStoredBetween == InitStoredBetween /\ [][NextStoredBetween]_vars

(***************************************************************************)
(* What the claims say of the compressor, stated apart from the code       *)
(***************************************************************************)

\* The outer template all strategies share, around a body.
OuterTemplate(body, py) ==
    "<details><summary>Python " \o py \o " Test Summary</summary>\n\n" \o Fence \o "\n"
        \o body \o "\n" \o Fence \o "\n\n</details>\n"

\* A full line: filepath::name[variant]: message, the variant segment left out
\* when absent, the name segment left out when absent.
FullLine(r) ==
    r.filepath
        \o (IF r.name = None THEN "" ELSE "::" \o r.name)
        \o (IF r.variant = None THEN "" ELSE "[" \o r.variant \o "]")
        \o ": " \o r.message

RECURSIVE FullLines(_)
FullLines(rs) ==
    IF rs = <<>> THEN <<>> ELSE <<FullLine(Head(rs))>> \o FullLines(Tail(rs))

FullListing(rs, py) == OuterTemplate(Join(FullLines(rs), "\n"), py)

SummaryFallback(rs, py) == OuterTemplate(ToString(Len(rs)) \o " failing tests", py)

\* The triple a report is grouped by.
Triple(r) == <<r.filepath, r.name, r.message>>

\* The positions at which a triple occurs for the first time.
FirstOccurrences(rs) ==
    {i \in 1..Len(rs) : \A j \in 1..(i - 1) : Triple(rs[j]) # Triple(rs[i])}

\* The number of reports that share the triple of the report at position i.
GroupSize(rs, i) == Cardinality({j \in 1..Len(rs) : Triple(rs[j]) = Triple(rs[i])})

\* The line of the group first seen at position i.
GroupLine(rs, i) ==
    LET r == rs[i]
        K == GroupSize(rs, i)
        head == r.filepath \o "::" \o PyStr(r.name)
    IN  IF K > 1 THEN head \o "[" \o ToString(K) \o " failing variants]: " \o r.message
        ELSE IF r.variant # None THEN head \o "[" \o r.variant \o "]: " \o r.message
        ELSE head \o ": " \o r.message

RECURSIVE GroupLinesFrom(_, _)
\* The group lines of the first occurrences at positions i.., in that order.
GroupLinesFrom(rs, i) ==
    IF i > Len(rs) THEN <<>>
    ELSE (IF i \in FirstOccurrences(rs) THEN <<GroupLine(rs, i)>> ELSE <<>>)
            \o GroupLinesFrom(rs, i + 1)

RECURSIVE SumGroupSizes(_, _)
\* The sizes of the groups merge_variants forms, added up.
SumGroupSizes(rs, keys) ==
    IF keys = <<>> THEN 0
    ELSE Len(bucket_group(rs, Head(keys))) + SumGroupSizes(rs, Tail(keys))

\* The fractions of the truncation strategy, in percent, in their order.
TruncationPercents == <<95, 75, 50, 25, 10, 1>>

\* floor(n * fraction)
Shown(n, i) == (n * TruncationPercents[i]) \div 100

\* The rendering of the i-th fraction: the first Shown reports as full lines,
\* then the line "+ {r} failing tests".
TruncationRendering(rs, i, py) ==
    LET n == Len(rs)
        shown == Shown(n, i)
    IN  OuterTemplate(
            Join(FullLines(SubSeq(rs, 1, shown))
                    \o <<"+ " \o ToString(n - shown) \o " failing tests">>, "\n"),
            py)

\* The fractions whose rendering fits the budget.
FittingFractions(rs, budget, py) ==
    {i \in 1..Len(TruncationPercents) : Len(TruncationRendering(rs, i, py)) <= budget}

Least(S) == CHOOSE i \in S : \A j \in S : i <= j

\* C1: compressed_report returns either none or a string whose length is at
\* most max_chars, for every list of reports and every budget, also a budget
\* smaller than the rendered summary line.
C1_NeverExceedsBudget ==
    op = "compressed_report" => (result = None \/ Len(result) <= max_chars)

\* C3: compressed_report takes the strategies in the order full listing,
\* variant merge, fractional truncation, summary fallback and returns the
\* rendering of the first one whose fully rendered template has at most
\* max_chars characters; when the full listing fits, the result is that
\* listing, one line per report in input order.
C3_FirstFittingStrategyWins ==
    op = "compressed_report" =>
        LET full == FullListing(reports, py_version)
            merged == merge_variants(reports, max_chars, py_version)
            truncated == truncate(reports, max_chars, py_version)
            summary == SummaryFallback(reports, py_version)
        IN  IF Len(full) <= max_chars THEN result = full
            ELSE IF Len(merged) <= max_chars THEN result = merged
            ELSE IF truncated # None /\ Len(truncated) <= max_chars
                 THEN result = truncated
            ELSE Len(summary) <= max_chars => result = summary

\* C3 witness: neither the full listing nor the variant merge fits, a
\* truncation does, and it was returned.
C3_Witness ==
    /\ op = "compressed_report"
    /\ Len(FullListing(reports, py_version)) > max_chars
    /\ Len(merge_variants(reports, max_chars, py_version)) > max_chars
    /\ \E i \in FittingFractions(reports, max_chars, py_version) :
          /\ i = Least(FittingFractions(reports, max_chars, py_version))
          /\ Shown(Len(reports), i) >= 1
          /\ result = TruncationRendering(reports, i, py_version)

\* C7: merge_variants emits one line per distinct (filepath, name, message),
\* in order of first occurrence; a group of K > 1 reports renders as
\* filepath::name[K failing variants]: message, a group of one with its own
\* variant or as filepath::name: message; the group sizes add up to the
\* number of reports.
C7_MergeVariantsGroups ==
    op = "merge_variants" =>
        /\ result = OuterTemplate(Join(GroupLinesFrom(reports, 1), "\n"), py_version)
        /\ Len(GroupLinesFrom(reports, 1)) = Cardinality({Triple(reports[i]) : i \in 1..Len(reports)})
        /\ SumGroupSizes(reports, bucket_keys(reports, <<>>)) = Len(reports)

\* C7 witness: three reports, the first and the third of one triple with
\* different variants, the second of another triple.
C7_Witness ==
    /\ op = "merge_variants"
    /\ Len(reports) = 3
    /\ Triple(reports[1]) = Triple(reports[3])
    /\ Triple(reports[1]) # Triple(reports[2])
    /\ reports[1].variant # reports[3].variant
    /\ result = OuterTemplate(
            GroupLine(reports, 1) \o "\n" \o FullLine(reports[2]), py_version)

\* C8: truncate returns the rendering of the first of the fractions 0.95,
\* 0.75, 0.5, 0.25, 0.1, 0.01 that fits max_chars, none when no fraction
\* fits; so the result is none or a string of at most max_chars characters.
C8_TruncateFirstFittingFraction ==
    op = "truncate" =>
        LET fitting == FittingFractions(reports, max_chars, py_version)
        IN  /\ fitting = {} => result = None
            /\ fitting # {} =>
                 result = TruncationRendering(reports, Least(fitting), py_version)
            /\ result = None \/ Len(result) <= max_chars

\* C8 witness: the first fraction does not fit, a later one that shows fewer
\* reports, but at least one, does and was returned.
C8_Witness ==
    /\ op = "truncate"
    /\ 1 \notin FittingFractions(reports, max_chars, py_version)
    /\ \E i \in FittingFractions(reports, max_chars, py_version) :
          /\ i = Least(FittingFractions(reports, max_chars, py_version))
          /\ Shown(Len(reports), i) >= 1
          /\ Shown(Len(reports), i) < Shown(Len(reports), 1)
          /\ result = TruncationRendering(reports, i, py_version)

\* The rendering that shows no report: the line "+ n failing tests" alone.
OnlyRemainderLine(rs, py) ==
    OuterTemplate("+ " \o ToString(Len(rs)) \o " failing tests", py)

\* C30: a rendering truncate returns shows at least one report line, it is
\* never the line "+ n failing tests" alone.
C30_AtLeastOneReportLine ==
    (op = "truncate" /\ result # None) =>
        result # OnlyRemainderLine(reports, py_version)

\* C30 as amended: a fraction for which floor(n * fraction) is zero is
\* selected like any other when its rendering is the first that fits, and
\* then the rendering is the line "+ n failing tests" alone; so it is for
\* every single report whose last rendering fits.
C30_EmptySelectionReturned ==
    op = "truncate" =>
        LET fitting == FittingFractions(reports, max_chars, py_version)
        IN  /\ (fitting # {} /\ Shown(Len(reports), Least(fitting)) = 0)
                => result = OnlyRemainderLine(reports, py_version)
            /\ (Len(reports) = 1 /\ Len(TruncationPercents) \in fitting)
                => result = OnlyRemainderLine(reports, py_version)
            /\ (result # None /\ result # OnlyRemainderLine(reports, py_version))
                => Shown(Len(reports), Least(fitting)) >= 1

\* C30 witness: of two reports no rendering with a report line fits, the
\* rendering of the fraction 0.25, which selects none, is returned.
C30_Witness ==
    /\ op = "truncate"
    /\ Len(reports) = 2
    /\ FittingFractions(reports, max_chars, py_version) # {}
    /\ Least(FittingFractions(reports, max_chars, py_version)) = 4
    /\ Shown(2, 4) = 0
    /\ result = OuterTemplate("+ 2 failing tests", py_version)

\* C30 witness: a single report.
C30_WitnessSingleReport ==
    /\ op = "truncate"
    /\ Len(reports) = 1
    /\ result = OuterTemplate("+ 1 failing tests", py_version)

\* C9: when the rendered summary fallback fits within max_chars,
\* compressed_report returns a string, not none.
C9_StringWhenSummaryFits ==
    (op = "compressed_report"
        /\ Len(SummaryFallback(reports, py_version)) <= max_chars)
    => result # None

\* C9 witness: only the summary fallback fits, and it was returned.
C9_Witness ==
    /\ op = "compressed_report"
    /\ Len(FullListing(reports, py_version)) > max_chars
    /\ Len(merge_variants(reports, max_chars, py_version)) > max_chars
    /\ FittingFractions(reports, max_chars, py_version) = {}
    /\ Len(SummaryFallback(reports, py_version)) <= max_chars
    /\ result = SummaryFallback(reports, py_version)

\* The collection-error template around a name and an error text.
CollectionErrorTemplate(name, text, py) ==
    "<details><summary>Python " \o py \o " Test Summary</summary>\n\n"
        \o name \o " failed:\n" \o Fence \o "\n" \o text \o "\n" \o Fence
        \o "\n\n</details>\n"

\* C4: when the failures are exactly one CollectionError, the report is the
\* collection-error template with "{name} failed:" and the complete error
\* text, whatever the length: no strategy and no budget check applies.
C4_CollectionErrorTemplate ==
    (op = "main" /\ Len(preformatted) = 1 /\ IsCollectionError(preformatted[1])) =>
        /\ main_message = CollectionErrorTemplate(preformatted[1].name,
                                                  preformatted[1].repr_, py_version)
        /\ output_file \in {main_message,
                            Join(strip_lines(IF bisect_file = None THEN <<>> ELSE bisect_file), "\n")
                                \o "\n" \o main_message}

\* C4 witness: one CollectionError whose template is longer than the budget
\* of main, written out in full.
C4_Witness ==
    /\ op = "main"
    /\ Len(preformatted) = 1
    /\ IsCollectionError(preformatted[1])
    /\ Len(preformatted[1].repr_) > MainMaxChars
    /\ output_file = CollectionErrorTemplate(preformatted[1].name,
                                             preformatted[1].repr_, py_version)

\* C24: unless the failures are a single CollectionError, the message main
\* writes, the bisection text followed by the compressed report, has at
\* most 65535 characters.
C24_FinalMessageWithinLimit ==
    (/\ op = "main"
     /\ output_file # None
     /\ ~(Len(preformatted) = 1 /\ IsCollectionError(preformatted[1]))) =>
        Len(output_file) <= 65535

\* C26: for failures that hold a CollectionError and another failure, or
\* several CollectionErrors, main does not raise while formatting: it writes
\* a report.
C26_MixedFailuresReported ==
    (/\ op = "main"
     /\ Len(preformatted) >= 2
     /\ \E i \in 1..Len(preformatted) : IsCollectionError(preformatted[i])) =>
        /\ main_message # AttributeError
        /\ output_file # None

(***************************************************************************)
(* What the claims say of the package diff                                 *)
(***************************************************************************)

\* Whether a snapshot has a version for a package: a missing key and a key
\* mapped to none both count as having none.
\* The keys of a snapshot, and the value of one of them.
KeysOf(snapshot) == {item[1] : item \in {snapshot[i] : i \in 1..Len(snapshot)}}
ValueOf(snapshot, pkg) ==
    (CHOOSE item \in {snapshot[i] : i \in 1..Len(snapshot)} : item[1] = pkg)[2]

HasVersion(snapshot, pkg) ==
    /\ pkg \in KeysOf(snapshot)
    /\ ValueOf(snapshot, pkg).kind # "null"
    /\ ValueOf(snapshot, pkg).version # None

\* The revision of a package info, NoneChars when it has none.
RevisionOf(info) ==
    IF info.kind = "dict" /\ info.git_info.kind = "dict"
    THEN info.git_info.git_revision ELSE NoneChars

RECURSIVE FirstChars(_, _)
\* The first n characters of a sequence of characters, as a string.
FirstChars(chars, n) ==
    IF n = 0 \/ chars = <<>> THEN ""
    ELSE Head(chars) \o FirstChars(Tail(chars), n - 1)

\* "{version} ({revision[:8]})" when a revision is present, else the version.
Display(info) ==
    IF RevisionOf(info) \in {NoneChars, <<>>} THEN info.version
    ELSE info.version \o " (" \o FirstChars(RevisionOf(info), 8) \o ")"

\* What C10 says of one package: the list item of the descriptor for a
\* removed and for a new package, nothing when neither side has a version;
\* for a package with a version on both sides C10 says only that there is at
\* most one descriptor.
C10_Expected(pkg, current, previous) ==
    IF HasVersion(previous, pkg) /\ ~HasVersion(current, pkg)
    THEN <<"- " \o pkg \o ": " \o Display(ValueOf(previous, pkg)) \o " → (removed)">>
    ELSE IF HasVersion(current, pkg) /\ ~HasVersion(previous, pkg)
    THEN <<"- " \o pkg \o ": (new) → " \o Display(ValueOf(current, pkg))>>
    ELSE IF ~HasVersion(current, pkg) /\ ~HasVersion(previous, pkg)
    THEN <<>>
    ELSE package_changes(pkg, current, previous)

RECURSIVE C10_ExpectedFrom(_, _, _)
\* The expected items of the packages at positions i.. of the ascending order.
C10_ExpectedFrom(i, current, previous) ==
    IF i > Len(PackageOrder) THEN <<>>
    ELSE (IF PackageOrder[i] \in KeysOf(current) \cup KeysOf(previous)
          THEN C10_Expected(PackageOrder[i], current, previous) ELSE <<>>)
            \o C10_ExpectedFrom(i + 1, current, previous)

\* C10: for every package of the union of the keys get_package_changes emits
\* at most one descriptor, as a list item "- ...": "{pkg}: {prev_display} →
\* (removed)" when only the previous snapshot has a version, "{pkg}: (new) →
\* {curr_display}" when only the current one has, nothing when neither has.
C10_RemovedAndNewPackages ==
    op = "get_package_changes" =>
        /\ changes = C10_ExpectedFrom(1, current_packages, previous_packages)
        /\ \A pkg \in KeysOf(current_packages) \cup KeysOf(previous_packages) :
              Len(package_changes(pkg, current_packages, previous_packages)) <= 1

\* C10 witness: one package removed, with a revision in its display, and
\* another one new; the two descriptors were returned.
C10_Witness ==
    /\ op = "get_package_changes"
    /\ HasVersion(previous_packages, "mypkg") /\ ~HasVersion(current_packages, "mypkg")
    /\ "mypkg" \in KeysOf(current_packages)
    /\ RevisionOf(ValueOf(previous_packages, "mypkg")) \in Revisions
    /\ Len(RevisionOf(ValueOf(previous_packages, "mypkg"))) > 8
    /\ HasVersion(current_packages, "numpy") /\ ~HasVersion(previous_packages, "numpy")
    /\ changes = <<"- mypkg: 1.0 (01234567) → (removed)", "- numpy: (new) → 2.0">>

RECURSIVE InAscendingOrder(_, _)
\* The items of the packages at positions i.. of the ascending order of the
\* names, one after the other.
InAscendingOrder(items, i) ==
    IF i > Len(PackageOrder) THEN <<>>
    ELSE items[PackageOrder[i]] \o InAscendingOrder(items, i + 1)

\* Whether both snapshots have a version for the package.
InBoth(pkg, current, previous) == HasVersion(current, pkg) /\ HasVersion(previous, pkg)

\* What C11 says of one package with the same version on both sides: the
\* list item of the descriptor when the revisions differ, nothing when they
\* do not; C11 says nothing of the other packages.
C11_Expected(pkg, current, previous) ==
    IF InBoth(pkg, current, previous)
        /\ ValueOf(current, pkg).version = ValueOf(previous, pkg).version
    THEN IF RevisionOf(ValueOf(current, pkg)) # RevisionOf(ValueOf(previous, pkg))
         THEN <<"- " \o pkg \o ": " \o Display(ValueOf(previous, pkg)) \o " → "
                    \o Display(ValueOf(current, pkg)) \o " (git revision changed)">>
         ELSE <<>>
    ELSE package_changes(pkg, current, previous)

\* C11: for a package with the same version string on both sides
\* get_package_changes emits a descriptor exactly when the two revisions
\* differ, the plain list item "- {pkg}: {prev_display} → {curr_display} (git
\* revision changed)" with the displays of C10; a snapshot diffed against
\* itself gives the empty list.
C11_SameVersionRevisionChanged ==
    op = "get_package_changes" =>
        /\ changes = InAscendingOrder(
                [pkg \in PackageNames |->
                    IF pkg \in KeysOf(current_packages) \cup KeysOf(previous_packages)
                    THEN C11_Expected(pkg, current_packages, previous_packages)
                    ELSE <<>>], 1)
        /\ current_packages = previous_packages => changes = <<>>

\* C11 witness: mypkg has version 1.0 on both sides, a revision of seven
\* characters before and one of ten now; numpy, in the table of repositories,
\* has the same version and only now a revision.
C11_Witness ==
    /\ op = "get_package_changes"
    /\ InBoth("mypkg", current_packages, previous_packages)
    /\ InBoth("numpy", current_packages, previous_packages)
    /\ ValueOf(previous_packages, "numpy").kind = "str"
    /\ changes = <<"- mypkg: 1.0 (abc123d) → 1.0 (01234567) (git revision changed)",
                   "- numpy: 1.0 → 1.0 (abc123d) (git revision changed)">>

\* C11 witness of the empty diff: a snapshot with revisions diffed against
\* itself.
C11_WitnessSelf ==
    /\ op = "get_package_changes"
    /\ current_packages = previous_packages
    /\ Len(current_packages) = 2
    /\ \A i \in 1..2 : RevisionOf(current_packages[i][2]) \in Revisions
    /\ changes = <<>>

\* What C12 says of one package whose version differs between the
\* snapshots: a link for a package of the table of repositories, plain text
\* for another; C12 says nothing of the other packages.
C12_Expected(pkg, current, previous) ==
    IF InBoth(pkg, current, previous)
        /\ ValueOf(current, pkg).version # ValueOf(previous, pkg).version
    THEN LET descriptor == pkg \o ": " \o Display(ValueOf(previous, pkg)) \o " → "
                                \o Display(ValueOf(current, pkg))
             url == "https://github.com/" \o PACKAGE_METADATA[pkg] \o "/compare/v"
                        \o ValueOf(previous, pkg).version \o "...v"
                        \o ValueOf(current, pkg).version
         IN  IF pkg \in DOMAIN PACKAGE_METADATA
             THEN <<"- [" \o descriptor \o "](" \o url \o ")">>
             ELSE <<"- " \o descriptor>>
    ELSE package_changes(pkg, current, previous)

Reinserted(snapshot) ==
    {[i \in 1..Len(snapshot) |-> snapshot[f[i]]] : f \in Permutations(1..Len(snapshot))}

\* C13: the list get_package_changes returns holds the items of the packages
\* in the ascending order of their names, over the keys of both snapshots,
\* whatever the order of insertion; and the same key/value pairs inserted in
\* another order give the same list.
C13_SortedAndOrderIndependent ==
    op = "get_package_changes" =>
        /\ changes = InAscendingOrder(
                [pkg \in PackageNames |->
                    IF pkg \in KeysOf(current_packages) \cup KeysOf(previous_packages)
                    THEN package_changes(pkg, current_packages, previous_packages)
                    ELSE <<>>], 1)
        /\ \A current \in Reinserted(current_packages),
              previous \in Reinserted(previous_packages) :
                get_package_changes(current, previous) = changes

\* C13 witness: numpy was inserted before mypkg in the current snapshot and
\* is the only key of the previous one; the item of mypkg comes first.
C13_Witness ==
    /\ op = "get_package_changes"
    /\ Len(current_packages) = 2
    /\ current_packages[1][1] = "numpy"
    /\ current_packages[2][1] = "mypkg"
    /\ KeysOf(previous_packages) = {"numpy"}
    /\ changes = <<"- mypkg: (new) → 2.0", "- numpy: 1.0 → 1.0 (abc123d) (git revision changed)">>

\* The package infos of both snapshots.
InfosOf(current, previous) ==
    {current[i][2] : i \in 1..Len(current)} \cup {previous[i][2] : i \in 1..Len(previous)}

HasNullGitInfo(info) == info.kind = "dict" /\ info.git_info.kind = "null"

\* The version of a package in a snapshot, None when it has none.
VersionOf(snapshot, pkg) ==
    IF HasVersion(snapshot, pkg) THEN ValueOf(snapshot, pkg).version ELSE None

\* C14: a rich record whose git_info is null is a record without revision:
\* extract_version_string gives its version, extract_git_revision none,
\* format_version_with_git its bare version, none of them raising;
\* get_package_changes does not raise on snapshots with such records, and
\* when no record has a revision it returns one descriptor for each package
\* whose version differs between the snapshots.
C14_NullGitInfoAccepted ==
    op = "get_package_changes" =>
        /\ \A info \in InfosOf(current_packages, previous_packages) :
              HasNullGitInfo(info) =>
                /\ extract_version_string(info) = info.version
                /\ extract_git_revision(info) = NoneChars
                /\ format_version_with_git(info) = info.version
        /\ changes # Raised
        /\ (\A info \in InfosOf(current_packages, previous_packages) :
                RevisionOf(info) = NoneChars)
            => Len(changes) = Cardinality(
                    {pkg \in PackageNames :
                        VersionOf(current_packages, pkg) # VersionOf(previous_packages, pkg)})

(***************************************************************************)
(* What the claims say of the last-good lookup                             *)
(***************************************************************************)

\* The runs of the history: the stored runs that can be read.
History ==
    IF branch.kind = "missing" THEN {}
    ELSE {f \in Range(branch.files) : f.kind = "run"}

\* The runs of the history that do not list t as failed.
RunsPassing(t) == {run \in History : \A i \in 1..Len(run.failed_tests) : run.failed_tests[i] # t}

\* a is at most b, as timestamps are ordered: character by character, the
\* shorter of two that agree first.
TimestampLeq(a, b) ==
    \/ a = b
    \/ \E k \in 0..Len(a) :
          /\ k <= Len(b)
          /\ \A i \in 1..k : a[i] = b[i]
          /\ \/ k = Len(a) /\ k < Len(b)
             \/ k < Len(a) /\ k < Len(b) /\ ord(a[k + 1]) < ord(b[k + 1])

RECURSIVE SectionText(_)
\* The text of a section: its lines, each on a line of its own, without a
\* newline after the last one.
SectionText(lines) ==
    IF Len(lines) = 1 THEN lines[1]
    ELSE lines[1] \o "\n" \o SectionText(Tail(lines))

RECURSIVE SectionsThenBlankLine(_)
\* The sections one after the other, a newline and an empty line after each.
SectionsThenBlankLine(sections) ==
    IF sections = <<>> THEN ""
    ELSE SectionText(Head(sections)) \o "\n\n" \o SectionsThenBlankLine(Tail(sections))

Contains(section, line) == \E j \in 1..Len(section) : section[j] = line

\* Where a line is in a section: 0 when it is not there.
LineIndex(section, line) ==
    IF Contains(section, line)
    THEN CHOOSE j \in 1..Len(section) :
            section[j] = line /\ \A k \in 1..(j - 1) : section[k] # line
    ELSE 0

PackageHeading == "### Package changes since last pass"
CodeHeading == "### Code changes since last pass"
NoRecentRunLine == "- No recent successful run found for this test"

\* The lines of a section between its package heading and its code heading.
PackageBlock(section) ==
    SubSeq(section, LineIndex(section, PackageHeading) + 1,
           LineIndex(section, CodeHeading) - 1)

\* C6: the section of a failing test no run of the history passed has the
\* line "- No recent successful run found for this test" and neither
\* heading; the section of a test some run passed has both headings, the
\* package heading first and under it the diff against the last-good run or,
\* when that is empty, "- No package changes detected", and never that line.
C6_SectionByLastGood ==
    op = "format_bisect_comparison" =>
        \A i \in 1..Len(current_data.failed_tests) :
            LET test == current_data.failed_tests[i]
                section == test_sections[i]
            IN  IF RunsPassing(test) = {}
                THEN /\ Contains(section, NoRecentRunLine)
                     /\ ~Contains(section, PackageHeading)
                     /\ ~Contains(section, CodeHeading)
                ELSE LET diff == get_package_changes(current_data.packages,
                                                     test_last_success[test].packages)
                     IN  /\ test_last_success[test] \in RunsPassing(test)
                         /\ Contains(section, PackageHeading)
                         /\ Contains(section, CodeHeading)
                         /\ LineIndex(section, PackageHeading) < LineIndex(section, CodeHeading)
                         /\ PackageBlock(section) =
                                IF diff # <<>> THEN diff
                                ELSE <<"- No package changes detected">>
                         /\ ~Contains(section, NoRecentRunLine)

\* C6 witness: every run of the history lists x, so x has no last-good run;
\* y last passed in a run with another version of numpy.
C6_Witness ==
    /\ op = "format_bisect_comparison"
    /\ current_data.failed_tests = <<"x", "y">>
    /\ RunsPassing("x") = {}
    /\ RunsPassing("y") # {}
    /\ test_sections[1] = <<"## x", "### Analysis", NoRecentRunLine>>
    /\ PackageBlock(test_sections[2]) =
            <<"- [numpy: 1.0 → 2.0](https://github.com/numpy/numpy/compare/v1.0...v2.0)">>

\* C6 witness of the other package block: x last passed in a run with the
\* packages of the current run.
C6_WitnessNoChanges ==
    /\ op = "format_bisect_comparison"
    /\ current_data.failed_tests = <<"x">>
    /\ RunsPassing("x") # {}
    /\ PackageBlock(test_sections[1]) = <<"- No package changes detected">>

\* C27: the section of a failing test says "- No code changes detected"
\* only when the commit hash of the current run and that of the last-good
\* run are both known, neither being "unknown", and equal.
C27_NoCodeChangesOnlyWhenKnown ==
    op = "format_bisect_comparison" =>
        \A i \in 1..Len(current_data.failed_tests) :
            Contains(test_sections[i], "- No code changes detected") =>
                LET last_good == test_last_success[current_data.failed_tests[i]]
                IN  /\ last_good # NoRun
                    /\ current_data.git.commit_hash # "unknown"
                    /\ last_good.git.commit_hash # "unknown"
                    /\ current_data.git.commit_hash = last_good.git.commit_hash

(***************************************************************************)
(* What the claims say of the git hash of a version string                 *)
(***************************************************************************)

HexDigits ==
    {"0", "1", "2", "3", "4", "5", "6", "7", "8", "9",
     "a", "b", "c", "d", "e", "f", "A", "B", "C", "D", "E", "F"}

RECURSIVE DigitsAfter(_, _)
\* The hex digits that follow position i without a gap.
DigitsAfter(str, i) ==
    IF i < Len(str) /\ str[i + 1] \in HexDigits
    THEN <<str[i + 1]>> \o DigitsAfter(str, i + 1)
    ELSE <<>>

\* The positions of a g, in either case, that at least 7 hex digits follow.
HashStarts(str) ==
    {i \in 1..Len(str) : str[i] \in {"g", "G"} /\ Len(DigitsAfter(str, i)) >= 7}

\* Those of them that the separator comes right before.
HashStartsAfter(sep, str) == {i \in HashStarts(str) : i > 1 /\ str[i - 1] = sep}

\* The hash at the least of the positions: at most 40 of its digits.
LeftmostHash(starts, str) ==
    LET i == CHOOSE j \in starts : \A k \in starts : j <= k
        digits == DigitsAfter(str, i)
    IN  IF Len(digits) > 40 THEN SubSeq(digits, 1, 40) ELSE digits

\* C15: the result is the leftmost hash after ".g" when there is one in the
\* string, else the leftmost hash after "+g" when there is one, else the
\* leftmost hash after a bare g, else none; g in either case, a hash being 7
\* to 40 hex digits.
C15_PatternOrder ==
    op = "extract_git_hash_from_version" =>
        LET after_dot == HashStartsAfter(".", argument)
            after_plus == HashStartsAfter("+", argument)
            after_g == HashStarts(argument)
        IN  returned =
                IF after_dot # {} THEN LeftmostHash(after_dot, argument)
                ELSE IF after_plus # {} THEN LeftmostHash(after_plus, argument)
                ELSE IF after_g # {} THEN LeftmostHash(after_g, argument)
                ELSE NoneChars

\* C15 witness: "+gaaaaaaa.g1111111": the hash after ".g" is returned
\* although the one after "+g" comes first.
C15_Witness ==
    /\ op = "extract_git_hash_from_version"
    /\ argument = <<"+", "g">> \o Chars("a", 7) \o <<".", "g">> \o Chars("1", 7)
    /\ returned = Chars("1", 7)

\* C15 witness of the bare pattern: "1.0gaaaaaa+g1111111", where the hash
\* after the first g is too short.
C15_WitnessBare ==
    /\ op = "extract_git_hash_from_version"
    /\ HashStartsAfter(".", argument) = {}
    /\ HashStartsAfter("+", argument) = {}
    /\ Len(argument) > 8
    /\ argument[1] = "g"
    /\ returned = Chars("a", 7)

\* C16: a result consists of 7 to 40 hex digits that come right after a g
\* of the string; a string in which fewer than 7 hex digits follow every g
\* gives none.
C16_HashAfterG ==
    op = "extract_git_hash_from_version" =>
        /\ returned # NoneChars =>
            /\ Len(returned) \in 7..40
            /\ \A k \in 1..Len(returned) : returned[k] \in HexDigits
            /\ \E i \in 1..Len(argument) :
                  /\ argument[i] \in {"g", "G"}
                  /\ i + Len(returned) <= Len(argument)
                  /\ SubSeq(argument, i + 1, i + Len(returned)) = returned
        /\ (\A i \in 1..Len(argument) :
                argument[i] \in {"g", "G"} => Len(DigitsAfter(argument, i)) < 7)
            => returned = NoneChars

\* C16 witness: 41 hex digits follow the g and the first 40 are returned.
C16_Witness ==
    /\ op = "extract_git_hash_from_version"
    /\ argument = <<"1", ".", "0", "+", "g">> \o Chars("a", 41)
    /\ returned = Chars("a", 40)

\* C16 witness of none: "1.0+gaaaaaa", six hex digits after the g.
C16_WitnessTooShort ==
    /\ op = "extract_git_hash_from_version"
    /\ argument = <<"1", ".", "0", "+", "g">> \o Chars("a", 6)
    /\ returned = NoneChars

(***************************************************************************)
(* What the claims say of the snapshot of the current run                  *)
(***************************************************************************)

C17_WitnessNoLog ==
    /\ op = "create_bisect_data"
    /\ argument.log_path = "pytest-log.jsonl"
    /\ ~argument.log_file.exists
    /\ returned.test_status = "passed"

\* The node ids of the failed records of a log, in the order of the log.
FailedInLog(lines) ==
    LET Failed(line) ==
            /\ line.kind = "record"
            /\ line.report_type \in {"TestReport", "CollectReport"}
            /\ line.outcome = "failed"
            /\ line.nodeid \notin {None, ""}
        failed == SelectSeq(lines, Failed)
    IN  [i \in 1..Len(failed) |-> failed[i].nodeid]

RECURSIVE FirstOccurrencesOf(_)
\* A sequence without the repetitions of its elements.
FirstOccurrencesOf(seq) ==
    IF seq = <<>> THEN <<>>
    ELSE LET front == SubSeq(seq, 1, Len(seq) - 1)
             last == seq[Len(seq)]
         IN  IF \E i \in 1..Len(front) : front[i] = last
             THEN FirstOccurrencesOf(front)
             ELSE FirstOccurrencesOf(front) \o <<last>>

\* C18: failed_tests of the snapshot holds every node id at most once, in
\* the order of the first failed record of each in the log.
C18_FailedTestsOrderedSet ==
    op = "create_bisect_data" =>
        /\ \A i, j \in 1..Len(returned.failed_tests) :
              returned.failed_tests[i] = returned.failed_tests[j] => i = j
        /\ argument.log_file.exists /\ argument.log_path \notin {None, ""}
            => returned.failed_tests = FirstOccurrencesOf(FailedInLog(argument.log_file.lines))

\* C21: the failed tests read from a log are the node ids of its records of
\* a TestReport or CollectReport with outcome "failed" and a non-empty
\* nodeid, one for each record and in the order of the log, whatever lines
\* that are no JSON it holds before, between or after them.
C21_MalformedLinesSkipped ==
    (/\ op = "create_bisect_data"
     /\ argument.log_path \notin {None, ""}
     /\ argument.log_file.exists) =>
        LET records == SelectSeq(argument.log_file.lines,
                                 LAMBDA line : line.kind # "malformed")
        IN  /\ returned.failed_tests = FailedInLog(argument.log_file.lines)
            /\ returned.failed_tests = FailedInLog(records)

\* C21 witness: a malformed line between the failed records of a and of b.
C21_Witness ==
    /\ op = "create_bisect_data"
    /\ argument.log_path = "pytest-log.jsonl"
    /\ argument.log_file.exists
    /\ Len(argument.log_file.lines) = 3
    /\ argument.log_file.lines[1].kind = "record"
    /\ argument.log_file.lines[2] = MalformedLine
    /\ returned.failed_tests = <<"a", "b">>

\* C21 witness: malformed lines before and after the only failed record.
C21_WitnessAround ==
    /\ op = "create_bisect_data"
    /\ argument.log_file.exists
    /\ Len(argument.log_file.lines) = 3
    /\ argument.log_file.lines[1] = MalformedLine
    /\ argument.log_file.lines[3] = MalformedLine
    /\ returned.failed_tests = <<"m">>

\* C25: when the log of the run holds a record of a TestReport or a
\* CollectReport with outcome "failed", be it a CollectReport with an empty
\* node id, the snapshot of the run has test_status "failed".
C25_FailureNeverRecordedAsPassed ==
    (/\ op = "create_bisect_data"
     /\ argument.log_path \notin {None, ""}
     /\ argument.log_file.exists
     /\ \E i \in 1..Len(argument.log_file.lines) :
            LET line == argument.log_file.lines[i]
            IN  /\ line.kind = "record"
                /\ line.report_type \in {"TestReport", "CollectReport"}
                /\ line.outcome = "failed") =>
        returned.test_status = "failed"

(***************************************************************************)
(* What the claims say of the message of a report                          *)
(***************************************************************************)

\* A CSI sequence starts at position i: ESC, "[", parameter bytes 0x30-0x3F,
\* intermediate bytes 0x20-0x2F and a final byte 0x40-0x7E.
CsiAt(str, i) ==
    /\ i < Len(str)
    /\ str[i] = "ESC"
    /\ str[i + 1] = "["
    /\ \E p \in (i + 2)..Len(str), f \in (i + 2)..Len(str) :
          /\ p <= f
          /\ \A k \in (i + 2)..(p - 1) : byte_of(str[k]) \in 48..63
          /\ \A k \in p..(f - 1) : byte_of(str[k]) \in 32..47
          /\ byte_of(str[f]) \in 64..126

\* A single-byte Fe sequence starts at position i: ESC and a byte 0x40-0x5F
\* other than "[".
FeAt(str, i) ==
    /\ i < Len(str)
    /\ str[i] = "ESC"
    /\ str[i + 1] # "["
    /\ byte_of(str[i + 1]) \in 64..95

\* C19: the stripped message holds no CSI sequence and no single-byte Fe
\* sequence.
C19_NoControlSequenceLeft ==
    op = "strip_ansi" =>
        \A i \in 1..Len(returned) : ~CsiAt(returned, i) /\ ~FeAt(returned, i)

(***************************************************************************)
(* What the claims say of the parts of a node id                           *)
(***************************************************************************)

\* c is no character of str.
Without(str, c) == \A k \in DOMAIN str : str[k] # c

\* str has the two characters "::" somewhere.
HasSeparator(str) ==
    \E k \in 1..(Len(str) - 1) : str[k] = ":" /\ str[k + 1] = ":"

\* The way the node id ends once its name starts at position n: with the
\* name alone, or with the name and a variant in brackets.
EndsAsClaimed(str, n, parts) ==
    LET filepath == SubSeq(str, 1, n - 3)
        rest == SubSeq(str, n, Len(str))
    IN  /\ (rest # <<>> /\ Without(rest, "[")) =>
               parts = [kind |-> "dict", filepath |-> filepath,
                         name |-> rest, variant |-> NoneChars]
        /\ \A b \in 2..(Len(rest) - 2) :
               (/\ rest[b] = "["
                /\ rest[Len(rest)] = "]"
                /\ Without(SubSeq(rest, 1, b - 1), "[")
                /\ Without(SubSeq(rest, b + 1, Len(rest) - 1), "[")) =>
               parts = [kind |-> "dict", filepath |-> filepath,
                         name |-> SubSeq(rest, 1, b - 1),
                         variant |-> SubSeq(rest, b + 1, Len(rest) - 1)]

\* C20: a node id made of a non-empty filepath without ":", the separator
\* "::", a non-empty name without "[" and, or not, a non-empty variant
\* without "[" in brackets is parsed to just these parts (the variant being
\* none without brackets); a string without "::" makes parse_nodeid fail
\* with ValueError.
C20_PartsOfNodeid ==
    op = "parse_nodeid" =>
        /\ \A n \in 4..Len(argument) :
               (/\ Without(SubSeq(argument, 1, n - 3), ":")
                /\ argument[n - 2] = ":"
                /\ argument[n - 1] = ":") =>
               EndsAsClaimed(argument, n, returned)
        /\ ~HasSeparator(argument) => returned = ValueError

\* The same for node ids without line break.
C20_PartsOfNodeidOnOneLine ==
    Without(argument, "\n") => C20_PartsOfNodeid

(***************************************************************************)
(* What the claims say of the versions of the requested packages           *)
(***************************************************************************)

\* The names of a list of requested packages.
Requested == {argument.packages[i] : i \in 1..Len(argument.packages)}

C22_WitnessAllAmongOthers ==
    /\ op = "get_current_package_versions"
    /\ argument.packages = <<"all", "numpy">>
    /\ KeysOf(returned) = {"all", "numpy"}

(***************************************************************************)
(* What the claims say of storing a run                                    *)
(***************************************************************************)

\* The name of the file of a run: run_, the run id, _, the timestamp with
\* "-" for ":" and without its "Z", .json.
SnapshotName(run) ==
    LET Safe(c) == IF c = ":" THEN "-" ELSE c
        kept == SelectSeq(run.timestamp, LAMBDA c : c # "Z")
    IN  <<"run_", run.workflow_run_id, "_">>
            \o [i \in 1..Len(kept) |-> Safe(kept[i])] \o <<".json">>

\* The store that has just been done has succeeded.
StoreSucceeded ==
    \/ op' = "create_run_data_file"
    \/ op' = "store_bisect_data_to_branch" /\ returned'.value

\* C23: a store operation, successful or failed, leaves every snapshot
\* stored earlier on the branch in place with its content, and a successful
\* one adds exactly one snapshot file, of the run stored and named after its
\* run id and timestamp.
C23_StoreOnlyAppends ==
    [][/\ \A f \in DOMAIN branch : f \in DOMAIN branch' /\ branch'[f] = branch[f]
       /\ StoreSucceeded =>
            /\ DOMAIN branch' \ DOMAIN branch = {SnapshotName(argument')}
            /\ branch'[SnapshotName(argument')] = argument'
       /\ ~StoreSucceeded => DOMAIN branch' = DOMAIN branch]_vars

(***************************************************************************)
(* What the claims say of the last-good runs once a run is stored          *)
(***************************************************************************)

\* C28: the last-good run of a failing test is the same before and after a
\* snapshot that lists the test as failed is added to the history, whatever
\* the timestamp of the snapshot and its place among the files.
C28_LastGoodUnchangedByFailingRun ==
    op = "generate_comparison" =>
        \A test \in Range(current_data.failed_tests) :
            test \in Range(argument.failed_tests) =>
                returned[test] = test_last_success[test]

\* C28 witness: the run stored is newer than the last-good run of x, which
\* stays the last-good run.
C28_Witness ==
    /\ op = "generate_comparison"
    /\ "x" \in Range(current_data.failed_tests)
    /\ "x" \in Range(argument.failed_tests)
    /\ test_last_success["x"] # NoRun
    /\ test_last_success["x"].timestamp = <<"0", "Z">>
    /\ argument.timestamp = <<"1", "Z">>
    /\ returned["x"] = test_last_success["x"]

\* C28 witness: the current run, which fails x and y, is stored on a branch
\* that was missing; both tests stay without a last-good run.
C28_WitnessCurrentRun ==
    /\ op = "generate_comparison"
    /\ argument.failed_tests = current_data.failed_tests
    /\ Len(current_data.failed_tests) = 2
    /\ Len(branch.files) = 1
    /\ returned["x"] = NoRun
    /\ returned["y"] = NoRun

(***************************************************************************)
(* What the claims say of previous_data                                    *)
(***************************************************************************)

C29_WitnessNothingFailed ==
    /\ op = "generate_comparison"
    /\ argument[1] # argument[2]
    /\ current_data.failed_tests = <<>>
    /\ returned = None
    /\ comparison = None

====
